------------------------------- MODULE Events ---------------------------------
(***************************************************************************)
(* The event tables and the requests on them: paged lists, detail, CSV     *)
(* export, applog ingest (internal/handler, internal/postgres), and the    *)
(* bridge that marks a notified row and hands it to the live streams and   *)
(* the notification engine (internal/ingestbridge).                        *)
(*                                                                         *)
(* One request or dispatch, req, runs at a time: they only meet through    *)
(* the tables and the mute rules, which change under it at any moment.     *)
(***************************************************************************)
EXTENDS Mutes

CONSTANTS
  StartRows,              \* the rows stored at the start
  Incoming,               \* rows that others store meanwhile, without received_at
  Queries,                \* [feed -> query parameters of its filter]
  Limits, HideParams,     \* values of limit and hide_muted
  Batches,                \* bodies of POST /applog/ingest, as sequences of entries
  defaultLimit, maxLimit, backfillLimit,
  exportPageSize, exportMaxRows, exportMaxSpan,
  applogMaxBatchSize,
  applogMaxLen,           \* [field -> greatest length]
  AttrsPreviewLimit,
  Retention               \* age at which a row may be dropped

VARIABLES
  rows,                   \* committed rows: [feed, id, at, e]
  pending,                \* members of Incoming not yet stored
  req                     \* the request or dispatch, or Idle

eventVars == <<rows, pending, req>>

Table(feed) == {r \in rows : r.feed = feed}
Event(r) == r.e @@ [ReceivedAt |-> r.at]
Key(r) == <<r.at, r.id>>
Before(k, l) == k[1] < l[1] \/ (k[1] = l[1] /\ k[2] < l[2])
NewestFirst(s) == SetToSortSeq(s, LAMBDA a, b : Before(Key(b), Key(a)))
OldestFirst(s) == SetToSortSeq(s, LAMBDA a, b : a.id < b.id)
FirstN(s, n) == SubSeq(s, 1, Min({n, Len(s)}))

-----------------------------------------------------------------------------
(* internal/postgres: the event stores *)

GetSrvlog(id) == {r \in Table("srvlog") : r.id = id}
GetNetlog(id) == {r \in Table("netlog") : r.id = id}
GetAppLog(id) == {r \in Table("applog") : r.id = id}

\* Mutant: the cursor is the row that was only peeked at.
PeekPage(selected, cursor, limit) ==
  LET after == {r \in selected : cursor = None \/ Before(Key(r), cursor)}
      got   == FirstN(NewestFirst(after), limit + 1)
  IN  [events |-> FirstN(got, limit), next |-> IF Len(got) > limit THEN Key(Last(got)) ELSE None]

\* LIMIT limit + 1: the row past the page only says that there is a next page.
Page(selected, cursor, limit) ==
  LET after == {r \in selected : cursor = None \/ Before(Key(r), cursor)}
      got   == FirstN(NewestFirst(after), limit + 1)
      more  == Len(got) > limit
  IN  [events |-> FirstN(got, limit), next |-> IF more THEN Key(got[limit]) ELSE None]

ListSrvlogs(f, cursor, limit) ==
  Page({r \in Table("srvlog") : applySrvlogFilter(f, Event(r))}, cursor, limit)

ListNetlogs(f, cursor, limit) ==
  Page({r \in Table("netlog") : applyNetlogFilter(f, Event(r))}, cursor, limit)

ListAppLogs(f, cursor, limit) ==
  Page({r \in Table("applog") : applyAppLogFilter(f, Event(r))}, cursor, limit)

ListSrvlogsSince(f, sinceID, limit) ==
  FirstN(OldestFirst({r \in Table("srvlog") : applySrvlogFilter(f, Event(r)) /\ r.id > sinceID}),
         limit)

ListNetlogsSince(f, sinceID, limit) ==
  FirstN(OldestFirst({r \in Table("netlog") : applyNetlogFilter(f, Event(r)) /\ r.id > sinceID}),
         limit)

ListAppLogsSince(f, sinceID, limit) ==
  FirstN(OldestFirst({r \in Table("applog") : applyAppLogFilter(f, Event(r)) /\ r.id > sinceID}),
         limit)

-----------------------------------------------------------------------------
(* What happens outside: rsyslog, other clients and the retention policy *)

\* received_at is when the transaction began and the id was drawn before it
\* committed, so either may be behind rows that are already visible.
RowCommits ==
  \E in \in pending, at \in 0..now :
    /\ rows' = rows \cup {[feed |-> in.feed, id |-> in.id, at |-> at, e |-> in.e]}
    /\ pending' = pending \ {in}
    /\ Outside(1)
    /\ UNCHANGED <<muteVars, req>>

RowDropped ==
  \E r \in rows :
    /\ r.at + Retention <= now
    /\ rows' = rows \ {r}
    /\ Outside(1)
    /\ UNCHANGED <<muteVars, pending, req>>

-----------------------------------------------------------------------------
(* Answers *)

\* A step of a request that changes nothing but the request.
Proceeds(r) == req' = r /\ UNCHANGED <<muteVars, steps, rows, pending>>
Done(r) == r @@ [pc |-> "done"]

\* The query fails, or the client goes away meanwhile.
Fails(pcs) ==
  /\ req.pc \in pcs
  /\ Outside(1)
  /\ req' = Done([kind |-> "failed"])
  /\ UNCHANGED <<muteVars, rows, pending>>

Finish ==
  /\ req.pc = "done"
  /\ Proceeds(Idle)

\* Bound: the mute rules move only while a request is about to read them, and
\* are otherwise as at the start: it could not tell when they moved before.
MutesAtStart == muteRows = StartMutes /\ rules = StartMutes /\ \A t \in DOMAIN task : task[t] = Idle
ReadsMutes ==
  \/ req = Idle
  \/ req.pc \in {"page", "mark"} /\ req.feed \in Feeds
  \/ req.pc = "batch" /\ req.kind = "device" /\ Len(req.view) = 6

markSrvlogs(snap, events) == [i \in DOMAIN events |-> MatchSrvlog(snap, Event(events[i]))]
markNetlogs(snap, events) == [i \in DOMAIN events |-> MatchNetlog(snap, Event(events[i]))]

\* Events as they are sent.
Marked(events, marks) == [i \in DOMAIN events |-> [e |-> events[i].e, mark |-> marks[i]]]
Keys(events) == [i \in DOMAIN events |-> Key(events[i])]

WithAttrsPreview(e, maxBytes) ==
  IF Len(e.Attrs) <= maxBytes THEN e @@ [AttrsTruncated |-> FALSE]
  ELSE [e EXCEPT !.Attrs = <<>>] @@ [AttrsTruncated |-> TRUE]

previewAppLogAttrs(events) ==
  [i \in DOMAIN events |-> [events[i] EXCEPT !.e = WithAttrsPreview(@, AttrsPreviewLimit)]]

-----------------------------------------------------------------------------
(* Lists: a client reads pages until there is no cursor *)

Encode(key) == [nanos |-> 1000 * key[1], id |-> key[2]]
DecodeCursor(c) == <<c.nanos \div 1000, c.id>>
ParseCursor(v) == IF v = None \/ v = Invalid THEN None ELSE DecodeCursor(v)

\* Ghost: the keys of the rows a request selects now.
Wanted(feed, filter) ==
  {Key(r) : r \in {r \in Table(feed) :
     CASE feed = "srvlog" -> applySrvlogFilter(filter, Event(r))
       [] feed = "netlog" -> applyNetlogFilter(filter, Event(r))
       [] OTHER           -> applyAppLogFilter(filter, Event(r))}}

\* ask is what the client sends: its first request, or the same with the cursor
\* of the page it has.
Asks(feed) ==
  IF req = Idle
  THEN {[q |-> q, hide |-> h, limit |-> l, cursor |-> c] :
          q \in Queries[feed], h \in HideParams, l \in Limits, c \in {None, Invalid}}
  ELSE IF req.pc = "page" /\ req.feed = feed THEN {req.ask} ELSE {}

\* Parse, take one snapshot of the mute rules, and exclude by it.
ListStarts(feed, ask, parsed, exclusions) ==
  LET hide   == ParseHideMuted(ask.hide)
      filter == IF hide THEN [parsed EXCEPT !.Exclude = exclusions] ELSE parsed
  IN  IF parsed = Invalid \/ hide = Invalid
      THEN Proceeds(Done([kind |-> "refused"]))
      ELSE Proceeds([pc |-> "query", kind |-> "list", feed |-> feed,
                     ask |-> [ask EXCEPT !.cursor = None],
                     filter |-> filter, hide |-> hide, snap |-> Active,
                     cursor |-> ParseCursor(ask.cursor),
                     limit |-> ParseLimit(ask.limit, defaultLimit, maxLimit),
                     got |-> IF req = Idle THEN <<>> ELSE req.got, page |-> <<>>,
                     due |-> IF req = Idle THEN Wanted(feed, filter)
                             ELSE req.due \cap Wanted(feed, filter)])

\* The page, marked by the snapshot, and the cursor of the next one.
ListAnswers(feed, page, marks) ==
  /\ req.pc = "query" /\ req.kind = "list" /\ req.feed = feed
  /\ Proceeds([req EXCEPT
       !.pc = IF page.next = None THEN "done" ELSE "page",
       !.ask.cursor = IF page.next = None THEN None ELSE Encode(page.next),
       !.got = @ \o Keys(page.events),
       !.page = Marked(page.events, marks)])

SrvlogList ==
  \/ \E ask \in Asks("srvlog") :
       ListStarts("srvlog", ask, ParseSrvlogFilter(ask.q), SrvlogExclusions(Active))
  \/ LET page == ListSrvlogs(req.filter, req.cursor, req.limit)
     IN  ListAnswers("srvlog", page, markSrvlogs(req.snap, page.events))

NetlogList ==
  \/ \E ask \in Asks("netlog") :
       ListStarts("netlog", ask, ParseNetlogFilter(ask.q), NetlogExclusions(Active))
  \/ LET page == ListNetlogs(req.filter, req.cursor, req.limit)
     IN  ListAnswers("netlog", page, markNetlogs(req.snap, page.events))

AppLogList ==
  \/ \E ask \in Asks("applog") :
       MutesAtStart /\ ListStarts("applog", [ask EXCEPT !.hide = None], ParseAppLogFilter(ask.q), {})
  \/ LET page == ListAppLogs(req.filter, req.cursor, req.limit)
     IN  ListAnswers("applog", [page EXCEPT !.events = previewAppLogAttrs(@)],
                     [i \in DOMAIN page.events |-> None])

\* The client stops reading.
Leave == req.pc = "page" /\ Proceeds(Idle)

-----------------------------------------------------------------------------
(* Detail, and the backfill of a stream: fetch, then mark by the rules of then *)

\* Rows fetched for kind; none is a 404, a lost row or an empty backfill.
Fetches(kind, feed, events) ==
  /\ req = Idle /\ MutesAtStart
  /\ Proceeds([pc |-> "mark", kind |-> kind, feed |-> feed, events |-> events])

Marks(kind, feed, marks) ==
  /\ req.pc = "mark" /\ req.kind = kind /\ req.feed = feed
  /\ Proceeds(Done([kind |-> kind, feed |-> feed, snap |-> Active,
                    page |-> Marked(req.events, marks)]))

Ids == {r.id : r \in StartRows \cup Incoming}

SrvlogGet ==
  \/ \E id \in Ids : Fetches("get", "srvlog", SetToSeq(GetSrvlog(id)))
  \/ Marks("get", "srvlog", markSrvlogs(Active, req.events))

\* The reference text of the msgid is left out: a failed lookup is only logged.
NetlogGet ==
  \/ \E id \in Ids : Fetches("get", "netlog", SetToSeq(GetNetlog(id)))
  \/ Marks("get", "netlog", markNetlogs(Active, req.events))

AppLogGet ==
  \/ \E id \in Ids : Fetches("get", "applog", SetToSeq(GetAppLog(id)))
  \/ Marks("get", "applog", [i \in DOMAIN req.events |-> None])

\* Last-Event-ID, or 0 for the newest rows.
SrvlogStream ==
  \/ req = Idle /\ \E q \in Queries["srvlog"], since \in {0} \cup Ids :
       LET f == ParseSrvlogFilter(q)
       IN  /\ f # Invalid
           /\ Fetches("backfill", "srvlog",
                      IF since = 0 THEN ListSrvlogs(f, None, backfillLimit).events
                      ELSE ListSrvlogsSince(f, since, backfillLimit))
  \/ Marks("backfill", "srvlog", markSrvlogs(Active, req.events))

NetlogStream ==
  \/ req = Idle /\ \E q \in Queries["netlog"], since \in {0} \cup Ids :
       LET f == ParseNetlogFilter(q)
       IN  /\ f # Invalid
           /\ Fetches("backfill", "netlog",
                      IF since = 0 THEN ListNetlogs(f, None, backfillLimit).events
                      ELSE ListNetlogsSince(f, since, backfillLimit))
  \/ Marks("backfill", "netlog", markNetlogs(Active, req.events))

AppLogStream ==
  \/ req = Idle /\ \E q \in Queries["applog"], since \in {0} \cup Ids :
       LET f == ParseAppLogFilter(q)
       IN  /\ f # Invalid
           /\ Fetches("backfill", "applog", previewAppLogAttrs(
                      IF since = 0 THEN ListAppLogs(f, None, backfillLimit).events
                      ELSE ListAppLogsSince(f, since, backfillLimit)))
  \/ Marks("backfill", "applog", [i \in DOMAIN req.events |-> None])

-----------------------------------------------------------------------------
(* The bridge: fetch the notified row, mark it, broadcast it, and notify *)

Dispatches(feed, marks, notified) ==
  /\ req.pc = "mark" /\ req.kind = "dispatch" /\ req.feed = feed
  /\ Proceeds(Done([kind |-> "dispatch", feed |-> feed, snap |-> Active,
                    page |-> Marked(req.events, marks), notified |-> notified]))

Unmuted(marks) == \A i \in DOMAIN marks : marks[i] = None

DispatchSrvlog ==
  \/ \E id \in Ids : Fetches("dispatch", "srvlog", SetToSeq(GetSrvlog(id)))
  \/ LET marks == markSrvlogs(Active, req.events)
     IN  Dispatches("srvlog", marks, IF Unmuted(marks) THEN req.events ELSE <<>>)

DispatchNetlog ==
  \/ \E id \in Ids : Fetches("dispatch", "netlog", SetToSeq(GetNetlog(id)))
  \/ LET marks == markNetlogs(Active, req.events)
     IN  Dispatches("netlog", marks, IF Unmuted(marks) THEN req.events ELSE <<>>)

-----------------------------------------------------------------------------
(* Export: pages until the table or the row cap ends; mute rules do not apply *)

validateExportTimeRange(from, to) ==
  from # None /\ to # None /\ to >= from /\ to - from <= exportMaxSpan

ExportStarts(feed, filter) ==
  /\ req = Idle /\ MutesAtStart
  /\ IF filter = Invalid THEN Proceeds(Done([kind |-> "refused"]))
     ELSE IF ~validateExportTimeRange(filter.From, filter.To)
     THEN Proceeds(Done([kind |-> "refused"]))
     ELSE Proceeds([pc |-> "query", kind |-> "export", feed |-> feed, filter |-> filter,
                    cursor |-> None, got |-> <<>>, due |-> Wanted(feed, filter)])

ExportPage(feed, page) ==
  LET got == req.got \o Keys(page.events)
  IN  /\ req.pc = "query" /\ req.kind = "export" /\ req.feed = feed
      /\ Proceeds([req EXCEPT !.got = got,
                     !.pc = IF page.next = None \/ Len(got) >= exportMaxRows THEN "done" ELSE @,
                     !.cursor = page.next])

ExportSrvlogs ==
  \/ \E q \in Queries["srvlog"] : ExportStarts("srvlog", ParseSrvlogFilter(q))
  \/ ExportPage("srvlog", ListSrvlogs(req.filter, req.cursor, exportPageSize))

ExportNetlogs ==
  \/ \E q \in Queries["netlog"] : ExportStarts("netlog", ParseNetlogFilter(q))
  \/ ExportPage("netlog", ListNetlogs(req.filter, req.cursor, exportPageSize))

ExportAppLogs ==
  \/ \E q \in Queries["applog"] : ExportStarts("applog", ParseAppLogFilter(q))
  \/ ExportPage("applog", ListAppLogs(req.filter, req.cursor, exportPageSize))

-----------------------------------------------------------------------------
(* Ingest: validate every entry, insert the batch, then broadcast and notify *)

\* Mutant: text goes to the database as it came.
keepNUL(s) == s

replaceNUL(s) == [i \in DOMAIN s |-> IF s[i] = "NUL" THEN "FFFD" ELSE s[i]]

\* The characters "\\" "u0000" are the JSON escape; a backslash hides the next one.
replaceNULEscapes(raw) ==
  LET Scan(st, c) ==
        IF st.hidden
        THEN [out |-> Append(st.out, IF c = "u0000" THEN "ufffd" ELSE c), hidden |-> FALSE]
        ELSE [out |-> Append(st.out, c), hidden |-> c = "\\"]
  IN  FoldLeft(Scan, [out |-> <<>>, hidden |-> FALSE], raw).out

validEntry(entry) ==
  /\ entry.Timestamp # None
  /\ NormalizeLevel(entry.Level) # None
  /\ \A k \in {"Msg", "Service", "Host"} : entry[k] # <<>>
  /\ \A k \in DOMAIN applogMaxLen : Len(entry[k]) <= applogMaxLen[k]

\* What is stored of an entry.
appLogEvent(entry) ==
  [k \in DOMAIN entry |->
     CASE k \in {"Timestamp", "Pattern"} -> entry[k]
       [] k = "Level"                    -> NormalizeLevel(entry[k])
       [] k = "Attrs"                    -> replaceNULEscapes(entry[k])
       [] OTHER                          -> replaceNUL(entry[k])]

\* The escape c is in the JSON text raw, its backslash not itself escaped.
HasEscape(raw, c) ==
  \E i \in DOMAIN raw :
    /\ raw[i] = c
    /\ LET slashes == {n \in 0..(i - 1) : \A j \in (i - n)..(i - 1) : raw[j] = "\\"}
       IN  Max(slashes) % 2 = 1

\* PostgreSQL: no text holds a NUL, and no jsonb the escape of one, nor half a
\* surrogate pair, which stands for all else that is JSON to Go and not to
\* jsonb: bytes that are not UTF-8, and numbers out of range.
Storable(e) ==
  /\ \A k \in DOMAIN applogMaxLen \ {"Attrs"} : ~Has(e[k], "NUL")
  /\ ~HasEscape(e.Attrs, "u0000") /\ ~HasEscape(e.Attrs, "ud800")

\* 400 stands for every refusal.
IngestStarts ==
  \E batch \in Batches :
    /\ req = Idle /\ MutesAtStart
    /\ IF /\ batch # Invalid
          /\ Len(batch) \in 1..applogMaxBatchSize
          /\ \A i \in DOMAIN batch : validEntry(batch[i])
       THEN /\ Outside(1)
            /\ req' = [pc |-> "insert", kind |-> "ingest", batch |-> batch,
                       events |-> [i \in DOMAIN batch |-> appLogEvent(batch[i])]]
            /\ UNCHANGED <<muteVars, rows, pending>>
       ELSE Proceeds(Done([kind |-> "ingest", status |-> 400, batch |-> batch, stored |-> {},
                           broadcast |-> <<>>, notified |-> <<>>, lost |-> FALSE]))

\* The rows of the batch: one transaction, ids in the order of the entries.
InsertLogBatch(events) ==
  LET first == 1 + Max({0} \cup {r.id : r \in StartRows \cup Incoming \cup rows})
  IN  [i \in DOMAIN events |->
         [feed |-> "applog", id |-> first + i - 1, at |-> now, e |-> events[i]]]

IngestAnswers(status, stored, broadcast, notified, lost) ==
  req' = Done([kind |-> "ingest", batch |-> req.batch, status |-> status, stored |-> stored,
               broadcast |-> broadcast, notified |-> notified, lost |-> lost])

IngestInserts ==
  LET inserted == InsertLogBatch(req.events)
  IN  /\ req.pc = "insert"
      /\ \A i \in DOMAIN req.events : Storable(req.events[i])
      /\ rows' = rows \cup ToSet(inserted)
      /\ \/ req' = [pc |-> "broadcast", batch |-> req.batch, inserted |-> inserted]
         \/ IngestAnswers(500, ToSet(inserted), <<>>, <<>>, TRUE)
      /\ UNCHANGED <<muteVars, steps, pending>>

\* PostgreSQL refuses the batch, or cannot be reached; nothing is committed.
IngestFails ==
  /\ req.pc = "insert"
  /\ IngestAnswers(500, {}, <<>>, <<>>, \A i \in DOMAIN req.events : Storable(req.events[i]))
  /\ UNCHANGED <<muteVars, steps, rows, pending>>

IngestBroadcasts ==
  /\ req.pc = "broadcast"
  /\ IngestAnswers(202, ToSet(req.inserted), previewAppLogAttrs(req.inserted), req.inserted, FALSE)
  /\ UNCHANGED <<muteVars, steps, rows, pending>>

Ingest == IngestStarts \/ IngestInserts \/ IngestFails \/ IngestBroadcasts

-----------------------------------------------------------------------------
(* Properties *)

\* Reading pages until the cursor ends, or exporting, returns every row that
\* was stored and selected when the walk began and still is, once and newest
\* first, whatever commits or is dropped meanwhile; an export that stops at
\* its cap leaves out only rows older than the last one it wrote.
WalkComplete ==
  req.pc \in {"page", "done"} /\ req.kind \in {"list", "export"} =>
    LET stored == {Key(r) : r \in Table(req.feed)}
        capped == req.kind = "export" /\ Len(req.got) >= exportMaxRows
        ended  == req.pc = "done" /\ ~capped
    IN  /\ \A i, j \in DOMAIN req.got : i < j => Before(req.got[j], req.got[i])
        /\ \A k \in req.due \cap stored :
             ended \/ (req.got # <<>> /\ Before(Last(req.got), k)) => Has(req.got, k)

\* What filter f looks for in event e, and where, is ASCII: the case of other
\* letters is Unicode's in Go and the locale's in SQL.
FoldsAlike(f, e) ==
  /\ f.Hostname # None => IsAscii(f.Hostname) /\ IsAscii(e.Hostname)
  /\ f.Search # None => IsAscii(f.Search) /\ IsAscii(e.Message)

\* The rows hide_muted leaves out of a list are the rows the same list would
\* have marked as muted: a page with hide_muted has no marked row, and a page
\* without it marks exactly the rows the SQL exclusion would have dropped.
\* Letters beyond ASCII may differ, so that a row comes back marked, as the
\* frontend expects.
HideMutedAgrees ==
  req.pc \in {"page", "done"} /\ req.kind = "list" /\ req.feed \in Feeds =>
    LET exclusions == IF req.feed = "srvlog" THEN SrvlogExclusions(req.snap)
                                             ELSE NetlogExclusions(req.snap)
    IN  \A i \in DOMAIN req.page :
          (\A f \in exclusions : FoldsAlike(f, req.page[i].e)) =>
            IF req.hide THEN req.page[i].mark = None
            ELSE (req.page[i].mark # None)
                   <=> (\E f \in exclusions : applySyslogFilter(f, req.page[i].e))

\* A rule whose write was followed by a successful reload decides: events it
\* matches while it runs are marked and reach no notification rule, and no
\* event is silenced by a rule that was ended or shortened, although reloads
\* of writers and of the ticker overlap and some fail.
MutesHold ==
  req.pc \in {"page", "done"} /\ req.kind \in {"list", "get", "backfill", "dispatch"}
    /\ req.feed \in Feeds =>
    LET Silences(k, e) ==
          LET r == req.snap.acked[k]
          IN  /\ r # None /\ r.Feed = req.feed /\ req.snap.now < r.ExpiresAt
              /\ SrvlogMatches([NoFilter EXCEPT !.Hostname = r.Hostname, !.Search = r.Search,
                                                !.Programname = r.Programname], e)
    IN  \A i \in DOMAIN req.page :
          LET m == req.page[i].mark
          IN  /\ (\E k \in MuteIds : Silences(k, req.page[i].e)) => m # None
              /\ m # None => req.snap.acked[m] = None \/ Silences(m, req.page[i].e)
              /\ req.kind = "dispatch" => (req.notified # <<>> <=> m = None)

\* Mutes silence what they say in every place that asks: in the SQL of the
\* lists, in the marks of pages and streams, and before the notification rules.
MutesAgree == MutesHold /\ HideMutedAgrees

\* Ingest answers what happened: 202 means that every entry is stored, with a
\* canonical level, and was broadcast and notified once, in order; 400 means
\* that nothing was; 500 means that nothing was broadcast, and is answered only
\* when the database failed, its reply was lost or an entry has attributes that
\* jsonb refuses for another reason than a NUL, and then no entry is stored.
IngestAnswersTrue ==
  req.pc = "done" /\ req.kind = "ingest" =>
    CASE req.status = 202 ->
           /\ Len(req.notified) = Len(req.batch) /\ Len(req.broadcast) = Len(req.batch)
           /\ req.stored = ToSet(req.notified) /\ req.stored \subseteq rows
           /\ \A i \in DOMAIN req.batch :
                /\ req.notified[i].e.Timestamp = req.batch[i].Timestamp
                /\ req.notified[i].e.Level \in DOMAIN ValidAppLogLevels
                /\ Storable(req.notified[i].e)
                /\ Key(req.broadcast[i]) = Key(req.notified[i])
                /\ i > 1 => req.notified[i].id > req.notified[i - 1].id
      [] req.status = 400 -> req.stored = {} /\ req.broadcast = <<>> /\ req.notified = <<>>
      [] req.status = 500 ->
           /\ \/ req.lost
              \/ /\ \E i \in DOMAIN req.batch : HasEscape(req.batch[i].Attrs, "ud800")
                 /\ req.stored = {}
           /\ req.broadcast = <<>> /\ req.notified = <<>>
===============================================================================
