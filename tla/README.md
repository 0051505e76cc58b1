# A formal model of taillight

taillight collects syslog from servers (srvlog), syslog from network devices
(netlog) and structured application logs (applog) in PostgreSQL, shows and
streams them to browsers, notifies people about the ones that match a rule, and
writes reports about them. This directory holds TLA+ specifications of that
system, the TLC configurations that model-check them, and TLAPS proofs about
nine of the modules.

Everything is translated from the code under `src/`; `PROJECT.json` maps each
definition to the lines it stands for. Paths below leave out `src/api/internal/`.

## 1. The system

| Part | Source | State it keeps | Model |
|---|---|---|---|
| Notification suppressor | `notification/suppressor.go` | fingerprints, timers, counts, inflight wait group | `Suppressor` |
| Delivery: retry, breaker, rate limit | `notification/engine.go`, `ratelimit.go` | one loop per delivery, breaker and bucket per channel | `Delivery` |
| Notification engine | `notification/engine.go` | rule and channel cache, dispatch queue, workers, wait groups | `NotificationEngine` (contains `Suppressor`) |
| SSE broker | `broker/*.go` | subscribers, per-client counts, buffers | `BrokerLimits`, `Broker` |
| SSE streaming and its client | `handler/sse_stream.go`, `useEventStream.ts` | backfill position, live loop, resume id | `SSEStream` (contains `Broker`) |
| LISTEN/NOTIFY listener | `postgres/listener.go` | connection, last seen id per channel, notification channel | `Listener` |
| Go log shipper | `src/pkg/logshipper` | channel, batch, retry batch, shutdown state | `LogShipper` |
| `taillight-shipper` command | `src/api/cmd/taillight-shipper` | file position, half a line, handlers | `TaillightShipper` |
| Analysis reports and schedules | `worker/analysis.go`, `scheduler/analysis.go`, the analysis handlers and stores | report rows, schedules, queue | `AnalysisReports` |
| Analyzer and Ollama client | `analyzer/*.go`, `postgres/analysis*.go` | what one run has gathered | `ReportShape`, `Analyzer` |
| Accounts, sessions, API keys, OIDC, LDAP | `auth`, `oidc`, `ldap`, `handler/auth*.go`, `postgres/auth_store.go` | users, sessions, keys, touch queue | `Accounts` |
| Notification channels and rules | `handler/notification.go`, `notification/secrets.go`, `postgres/notification_store.go` | rows with secrets | `Settings` |
| Summary scheduler | `scheduler/summary.go`, `handler/summary.go`, `postgres/summary_store.go` | schedules, their stamps | `Summaries` |
| Event filters, in Go and in SQL | `model`, `postgres/syslogfilter.go` | none | `Filters` |
| Mute rules | `mute`, `handler/mute_rule.go`, `postgres/mute_rule_store.go` | rows, and the copy in memory | `Mutes` |
| Event lists, detail, export, ingest, bridge | `handler`, `postgres`, `ingestbridge` | the event tables | `Events` |
| Device, host, totals and volume views | `handler`, `postgres` | none: they aggregate | `Overview` |
| Start and shutdown order | `src/api/cmd/taillight/serve.go` | | in each module, the steps that concern it |

How they interact. A row is inserted (by rsyslog, or by the ingest handler for
applogs). For syslog a trigger notifies the `Listener`, whose channel is drained
by several bridge workers; for applogs the ingest handler goes on by itself
(`Events`). Either way the event gets its mute mark (`Mutes`) and is handed to
the `Broker` of its feed and, unless muted, to the `NotificationEngine`. The
broker offers it to each browser's stream (`SSEStream`), which `Filters` narrows.
The engine matches it against the cached rules, which `Settings` edits, and
records it in the `Suppressor`, which decides when to flush; a flush is resolved
to channels, queued, taken by a dispatch worker, and sent by one `Delivery` per
channel. `Summaries` and `AnalysisReports` run on tickers of their own, read the
same tables (`Overview`, `Analyzer`) and send through the same engine.
Applications, and `TaillightShipper`, feed applogs in through the `LogShipper`.

Where two parts share state, one module contains the other:
`NotificationEngine` contains `Suppressor` and `SSEStream` contains `Broker`,
by `INSTANCE`, and the larger one is proved to implement the smaller (`SuppressorSpec`, which a
run checks too, and `UsesBroker`); `Summaries` extends `Settings`, and
`Filters`, `Mutes`, `Events`, `Overview`, `Analyzer` extend one another in this
order, so that lists, views, ingest, analysis and mute rules run against the
same tables. Where a part only needs another's outcome, the outcome is a free
choice: a delivery in the engine, a handler in `TaillightShipper`, the analyzer
in `AnalysisReports`.

## 2. The modules

**Suppressor.** `fingerprints` is the map (an absent key has phase `"clean"`),
`ruleFingerprintCount` the counter beside it, `armed` and `fired` the
`time.AfterFunc` timers and the callbacks that wait for `mu`, `inflight` the
`onFlush` calls under way. Each method is split only at the mutex: `Record` is
five actions, one per return path; a callback is `TimerFires` followed by
`flushInitial`, `flushSilenceDigest`, `flushSilenceClose`, or by
`CallbackTooLate` when Stop has emptied the map; `onFlush`, called after the
unlock, ends with `FlushReturns`. A payload is the number of the match it
describes. Durations are numbers of which only order matters; how late a timer
fires is not bounded, and a rule's windows may be edited between two fingerprints.
`offered`, `reported`, `refused` and `discarded` only observe.

**Delivery.** `sendWithRetry` as a control state per delivery (`gate`, `ready`,
`sending`, `errored`, `backoff`, `done`), with the bucket and the breaker they
share. `attemptSend` is split where the code leaves the breaker's critical
section: `AttemptStarts`, then `SendSucceeds`, `SendFails` or `SendPanics`, then,
for a failure, in a step of its own, the reading of `cb.State()` by `Suppress` or
`AttemptFailed`. A panic of the backend counts as a failure, passes through
`Execute` and is recovered by the delivery's goroutine, which ends. gobreaker
is external: `beforeRequest`, `afterSuccess`, `afterFailure` and the generations
that make late results void are modelled from its use. A log row stands for a
call of `recordLog`.

**NotificationEngine.** `HandleEvent` (the snapshot of the rules, then one
`Record` per matching rule), `onFlush` (lookup, resolution to enabled channels,
the select with a default), the dispatch workers, one goroutine per delivery,
the refresh loop with its two queries, edits of the stored rules and channels,
and `Shutdown` step by step, its timeout included. The suppressor's actions are
conjuncts of the engine's. A delivery's inside is abstracted to "tried, then
concluded, or ended by the cancelled context"; `Delivery` is its detail.

**Broker.** `Subscribe`, `Unsubscribe`, `Shutdown`, `Broadcast`. A broadcast
holds the read lock and visits the subscribers one by one (`BroadcastStarts`,
`BroadcastSends`, `BroadcastEnds`), so several run at once while the writers
wait (`CanLock`). `BrokerLimits` declares the constants it shares with
`SSEStream`.

**SSEStream.** The handler of a stream: subscribe, backfill (`since` the
Last-Event-ID, or the `recent` rows), live loop with the duplicate check, write
errors at any frame, disconnection; the browser, which keeps some prefix of the
frames and resumes from the last; transactions, broadcasts, the second broadcast
of a row the listener hands out again after a reconnect (`BroadcastAgain`), and the
server's shutdown order. PostgreSQL draws ids before commit, and applog rows carry
`received_at` stamps, so commits, stamps and broadcasts may each follow the ids
or not: `ordered`, chosen by `Init` from `Orders`, says which do. A connection's
filter is the set of events it selects, `Wants`, the same for the query and for
the broker; whether Go and SQL select the same is the question of `FiltersAgree`.
A query returns one of the answers its `ORDER BY` allows.

**Listener.** `recv`, the push to the bounded channel, connection loss at every
point, `Reconnect` (LISTEN before the gap fill), the per-channel gap-fill query
with its limit, its row errors and its pushes, the workers, `Shutdown`. `seen`
counts what workers got. Rows commit in any order of their ids; `late` has those
below an id committed before, and with `noBaseline` and `gaveUp` it records why a
row may be missed (`Excused`).

**LogShipper.** `Handle` (refused, entered under the read lock, pushed or
dropped), the `loop` goroutine with `add`, `flush`, retry batch, ticker and
drain, and `Shutdown` with its closing flag, lock barrier, `done` channel and
context. An entry is its number and its size; a send is answered, rejected,
fails, or is taken by the server without an answer.

**TaillightShipper.** `run` creates one handler per input, starts `readStdin`
and `tailFile`, waits for a signal or for the readers, and shuts the handlers
down. A file is a sequence of tokens, the two halves of a line and its end, which
may be written apart; the path names a file, whose number stands for its inode.
Other programs write, rename, create and truncate between any two of the
tailer's steps: open, fill, line, end of file, stat, reopen, wait. `parseLine`
gives a line its time, level, message and attributes, wrong types and spare
fields included. `seen` keeps the part of each file the tailer was to read, and
`cut`, `crossed` and `regrown` remember the races the code does not notice;
`broken` has the lines whose file was opened, left or emptied half-way.

**AnalysisReports.** The rows of `analysis_reports` and of the schedules, the
work channel, the single worker (`Take`, `MarkReportRunning`, the run,
`MarkReportCompleted` or `MarkReportFailed`, `MarkReportNotified`,
`SendAnalysisReport`), the handlers that insert, push and roll back, delete,
edit schedules and run them now, and the ticker (`ListSchedules`,
`TickSchedule`, `Stamp`). Each store call is a step and may fail; the process is
signalled, exits or is killed, and boots again with
`ReconcileOrphanedReports`.

**Accounts.** A request is a process that passes through the calls its handler
makes; what it read may have changed when it writes. Sign-in with a password,
by LDAP (`Authenticate`, `UpsertLDAPUser`) and by OIDC (`OIDCCallback`,
`UpsertOIDCUser` with its bounded search for a free username), the session and
the prune after it, the middleware that resolves a cookie or a key to a
principal, the administrative handlers behind it, and the worker that writes
`last_used` until it is stopped. A username is `<<base, n>>`, n being the suffix
provisioning added; a password is the number of the edit that set it.

**Settings.** Channels with their secrets: what a client reads is masked, what
it sends back is merged by `WithSecretsFrom` with the row read before and
written in a second step. Rules with `Validate`, the projection of the filter to
the rule's kind, and the rows that link them to channels. The validation is that
of the backends, key by key.

**Summaries.** The schedules with their handlers, and two kinds of runners, the
ticker and "send now" requests: list, gather (three queries and `GetTopIssues`),
send, stamp. The clock, a failing store, a signal, an exit and a boot are steps
of their own; a minute may begin while a tick waits, or while its schedules are
being listed, sent or stamped. `event_kinds` is a list, and a kind in it twice is
queried twice. `before`, `late` and `quiet` observe what the properties speak of.

**Filters.** What a filter selects, once as `Matches` evaluates it in Go and once
as the conditions sent to PostgreSQL do, with the parsing of query parameters in
front of both. Host patterns and search texts are sequences of characters, since
wildcards and escapes are what could differ, and the case of letters: Go lowers
all of Unicode, PostgreSQL what its locale knows (`localeLowered`).

**Mutes.** The table of mute rules and the copy in memory. A write commits, then
reloads the copy under `reloadMu` in two steps, the query and the swap; the
ticker reloads too, and a reload may fail. `acked` is what each rule has been
since the reload that followed its write, which is what its author may rely on.

**Events.** The three tables and one request or dispatch at a time: lists and
exports that walk page after page with a cursor, one event, the backfill of a
stream, the bridge's dispatch of a notified row, and ingest (validation, NUL
replacement, the batch insert, which PostgreSQL may refuse (`Storable`), broadcast,
notification). Meanwhile rows of
others commit, out of order of their ids, old rows are dropped, mute rules move
and queries fail.

**Overview.** The device page (five or six statements in one batch, each with a
snapshot of its own), the hosts page (five), the totals and the charts. `ORDER BY ...
LIMIT` leaves ties open, so `TopCounts` is a set of possible answers.

**ReportShape, Analyzer.** The rules a reply must meet, on replies as sequences of
lines; and one run: the ping, the statements of a syslog run (up to fourteen) or
of an applog run (seven) in the order of the code, each of which may fail
(`bestEffort` marks its section, a load-bearing one ends the run), the context
that may end between them, ranking and caps, the empty window, the call, the
validation and the one corrective call.

The `MC*` modules name model values and the functions a configuration cannot
spell. Operators whose comment begins with "Mutant" are deliberate mistakes,
used one at a time to see that a property notices them.

## 3. What the runs check

Run one with `tlc -workers 2 -config <cfg> <module>`.

| Run | Configuration | What it shows |
|---|---|---|
| `suppressor` | `MCSuppressor.cfg` | `MatchesReported`: every match is in exactly one alert or digest, pending, refused, or discarded by Stop, and an alert shows its first and a digest its last match. `TrackingConsistent`: the hand-kept counter equals the map, the caps hold, and each tracked fingerprint has the one timer its phase needs. `NoFlushAfterStop`. `SuppressionEnds`: what was counted is flushed, quiet fingerprints close, Stop returns. |
| `delivery` | `MCDelivery.cfg` | `AttemptsExplained`: each attempt that returned a failure is logged, "rate limited", "exhausted" and the other ends mean what they say, also if the backend panics, and nothing is sent twice. `ProbesBounded`: a half-open breaker never has more probes out than `MaxRequests`. `DeliveryEnds`. |
| `engine` | `MCNotificationEngine.cfg` | `ShutdownIsClean`: nobody sends on the closed `dispatchCh` and a clean Shutdown leaves nothing running. `FlushesDeliveredOnce`: a flush is in exactly one place, and a channel gets one delivery of it. `SuppressorSpec`: the engine implements the suppressor. `EngineProgress`: flushes are dropped or dispatched, edits reach the cache, Shutdown ends. |
| `stream` | `MCSSEStream.cfg` | `NoDuplicates`: no event is written twice on a connection if stamps follow ids, except one above the backfill that was broadcast again. `NothingLost`: none is lost between backfill and live if commits follow ids, nor between two connections of a browser if broadcasts do too. `BrokerIntact`: however handlers and the shutdown interleave, a broadcast finds open channels only, and the counts per client are right. |
| `listener` | `MCListener.cfg` | `EachRowHandedOut`: in whatever order rows commit, none is missed over any outage that the property does not excuse, and a row is repeated only after reconnects. `ListenerProgress`: rows reach a worker, and the goroutine exits when cancelled even if no worker reads. |
| `log_shipper` | `MCLogShipper.cfg` | `EveryEntryAccounted`: every entry handed to `Handle` is acknowledged or counted once, also in a race with Shutdown. `RequestsCorrect`: requests keep their limits, are repeated at most once, directly, and never overtaken. `ShutdownEnds`. |
| `taillight_shipper` | `MCTaillightShipper.cfg` | `LinesHandedOver`: each record is one line, in order, once, or a part of one where a rotation, a truncation or the start of the tailer cut it, and nothing that was read is lost. `RecordsSayWhatLinesSay`. `FollowsTheFile`: over any rotations the tailer ends up at the end of the file at the path. `SignalEndsCommand`: the command exits with every handler shut down, none before its reader. |
| `analysis_reports` | `MCAnalysisReports.cfg` | `MailedReportsAreStored`, also over a crash. `FiresOncePerWindow`, unless a stamp was lost. `ReportsSettle`: an accepted report is finished, deleted or reconciled. |
| `accounts` | `MCAccounts.cfg` | `IdentityKeepsItsAccount`: an OIDC identity always leads to its own account, whatever names collide and sign-ins overlap. `SessionsInOrder`: sessions stay within the cap and end with the password they were opened with, with the exceptions the property names. |
| `settings` | `MCSummaries.cfg` | `SettingsSound`: no mask is stored as a secret, and no rule is wider or quieter than it says. `MaskedSecretsSurvive`: an update whose read is current keeps what was left masked. `SummariesSpaced`, `DueSummaryGoesOut`: not twice in half a period, and in its minute if the goroutine gets through with it in that minute. `TopIssuesAreTheTop`: the cut per kind loses none, and a kind listed twice brings none that is not among the top. `CreatedSchedulesAreSafe`: only an update can store a schedule that stops the process. |
| `events` | `MCEvents.cfg` | `WalkComplete`: pages and exports return every row that was there all along, once, newest first. `MutesAgree`: SQL, marks and notifications agree on what is muted, and an acknowledged rule holds. `IngestAnswersTrue`: 202, 400 and 500 say what happened, also when jsonb refuses an entry. `ViewsAddUp`: the numbers of a view agree. `FiltersAgree`: Go and SQL select the same for all short texts in ASCII. `ReportsHonest`: what is stored is never reported as absent, the numbers of a prompt agree, a correction never makes a report worse, and the reply rules accept what they mean for all short replies. |
| `stream_gap` | `MCSSEStreamGap.cfg` | Counterexample to `NothingLostInBetween`, section 5. |

### Bounds, and why they are enough

- *Suppressor*: three groups against a cap of two per rule, so that one is refused,
  readmitted after a close, and refused again; two matches per key suffice for a
  window with and one without a further match; windows with a coalesce of zero
  and above, a silence that reaches its maximum after one bump, and one that is
  above it. The global
  cap, whose test is the other half of the same condition, is proved for all values
  (`CapsHold`) and does not bind here.
- *Delivery*: three deliveries against a bucket of two and a breaker that trips
  after two failures and probes twice: the bucket runs empty, failures of old
  generations arrive late, and probes compete. Two retry delays stand for the
  four of `retrySchedule`; nothing looks at the index except its end.
- *Engine*: one rule, group, channel and event handler, two dispatch workers, a
  queue of one, which fills up, two matches and one edit: enough for a flush
  under way, one queued and one being delivered at every point of Shutdown.
- *SSEStream*: two connections of one browser, one after the other or
  overlapping, two events, of which the second connection selects one, a
  buffer of one, and each guarantee under the weakest order it needs: only
  commits, only stamps, or all three in the order of ids. One broadcast is
  repeated, while the server runs and where stamps are in order
  (`RepeatsWhileRunning`); the proofs are for any number of repeats.
- *Listener*: two channels with three ids each, of which three are committed in
  any order, two losses (so that a gap fill itself is interrupted and repeated), a
  channel of one, a gap-fill limit of two (so that it truncates).
- *LogShipper*: two callers, five entries of three sizes, batch and buffer of
  two, a request limit that some pairs exceed and one entry exceeds alone.
- *TaillightShipper*: two lines, the text of the first written in two parts and
  the second apart from its end (`Pieces`), two rotations or truncations, one line
  on standard input: a line split over a rotation, a truncation between end of file
  and stat, and a file replaced twice in one poll. The log changes only between
  the start of the tailer and the signal (`Watched`).
- *AnalysisReports*: one schedule and one client beside the ticker, two reports,
  a queue of one (so that a push is rolled back), one failing store call, one
  crash, three edits, and three ticks, which cover the firing window and a tick
  on each side of it.
- *Accounts*: two requests, which is what overlaps need, three accounts, a
  directory user and two OIDC identities that all want one username, one session
  per account, two attempts at a name, a touch queue of one.
- *Settings, Summaries*: two channels, one rule, two schedules (one holds up the
  other), one "send now", two requests that edit, a day of four minutes and six
  points of time, three edits, one fault. Of the schedules clients send one lists
  a kind twice and is disabled, so that only "send now" runs it. The requests are interchangeable.
- *Events*: three srvlog rows, one netlog and two applog rows, some of them old
  enough to expire, one with a wildcard in its host and one with a letter beyond
  ASCII, in a database with the C locale, where only ASCII is lowered; a srvlog and an applog row
  that commit later with an id between stored ones; pages of one row; one mute rule
  at the start and one created; five kinds of analysis runs, and replies that are
  good, have a title too many, or lack their status; three steps of the
  environment per behaviour. One request runs at a time: requests only read
  tables and rules that others change, so two of them meet in nothing the
  properties see. The mute rules move only while a request is about to read
  them, and are otherwise as at the start (`MutesAtStart`, `ReadsMutes`): a
  request that has not read them yet cannot tell when they moved.
  `FiltersAgree` enumerates all texts of up to three characters over alphabets of
  five and six, `ShapesAgree` all replies of up to five lines.

`MaxMatches`, `MaxEdits`, `MaxId`, `MaxLosses`, `MaxCommits`, `MaxRepeats`,
`MaxCalls`, `Pieces`, `MaxFaults`, `MaxCrashes`, `MaxTime`, `MaxSteps` bound the environment only;
nothing in the modelled code depends on them. Deadlock is checked in `events`,
where every request must be answered. Everywhere else the system may stop: a
bounded environment runs out of events, or the component has been shut down.

### Fairness

Weak fairness of goroutines that are ready to run, of timers, and of calls
bounded by a timeout in the code: `onFlush`, a send, a query, a drain, a step of
the analysis worker or of a caller of it. A process that stops exits, and one
that is down is booted again, as its service manager does. Strong fairness for
the second query of a refresh, which is repeated every 30 seconds and is assumed
not to fail for ever, and for the end of the tailer's wait once the context is
cancelled: a `select` with two ready cases does not choose the ticker for ever.
Nothing is assumed of events, edits, lost connections, clients, signals, or the
end of standard input: closing it does not wake a read that is blocked.
`RowsArrive` assumes in addition that bridge workers come back
(`WorkerFairness`); `ShutdownEnds` of the listener does not. `stream`,
`accounts`, `settings` and `events` check safety and action properties only.

## 4. What is proved

TLAPS proves the following for all values of the constants that satisfy the
named assumptions: limits are natural numbers, mostly positive; sets that are
counted are finite; the listener's channels are distinct (`ListenerAssumption`);
the firing window is shorter than half a day (`ReportsAssumption`); a stored rule
names channels that exist (`EngineAssumption`). TLC evaluates each of them on the
instance it checks. Check a module with `tlapm <module>.tla`.

*SuppressorProofs.* `TypeCorrect`; `StopIsFinal`, from `Stop` waiting for the
wait group and `Record` and the callbacks testing `stopped` and the map under
the same mutex; `TimersCorrect`; `ShapeCorrect`, the strengthening the next two
need: while a fingerprint is tracked its last match is the last one offered, and
a coalesce window starts at the match `count - 1` before it; `Conservation`,
that the matches offered equal those reported, pending, refused and discarded;
`FlushesCorrect`; `CapsHold`, by following how one key enters or leaves a finite
map. Together they are `MatchesCorrect` and `TrackingCorrect`, the invariants of
the `suppressor` run. `SilenceGrows`: for any windows, the silence of a fingerprint
that keeps firing digests never shrinks, except that the first digest cuts one
above its maximum; the strengthening is that the silence is within the maximum or
still the rule's own.

*DeliveryProofs.* `LoopCorrect`: `TypeOK /\ EveryAttemptLogged` is inductive
together with `LoopBounds` (in the loop `1 <= attempt <= maxAttempts`, and a
delivery in backoff has an attempt left). From it `EveryAttemptIsLogged` and,
with the outcome reached at each control state, `OutcomesCorrect`; together
`AttemptsCorrect`. A panic ends a delivery with one row less than attempts.
`ProbesCorrect` counts the requests of the present breaker
generation as a finite set: every admitted probe is in `current`, and a new
generation empties it.

*NotificationEngineProofs.* `CacheCorrect`: what is cached, being loaded or
being handled are rules of the store. From it `UsesSuppressor`, the refinement
`Spec => SuppressorSpec`: each step of the engine is one of the suppressor, with
windows the suppressor's assumptions allow, or leaves it alone. So the theorems
of `SuppressorProofs` hold of the engine, and the rest uses them (a lemma per
action shows that the two instances of the suppressor agree). `DeliveredOnce` is
`FlushesDeliveredOnce`, and rests on `PlacesOK` (in flight, dropped, queued and
dispatched exclude each other), `TasksOK` (the tasks of a job are new when a
worker takes it) and `FlushesSettled`: a flush covers matches that are settled,
so the next flush of its key is another one. That flushes differ is what makes
"once" mean something, and it needs the suppressor's conservation of matches.
`ShutdownCorrect` is `ShutdownIsClean`, with `SendersOK` (the queue is closed
after Stop has returned, so no `onFlush` is about to send) and `WorkersOK` (a
worker that has exited left nothing behind).

*SSEStreamProofs.* About the broker alone: `SafetyCorrect`, a channel is closed only
by the step that removes its subscription, under a lock no broadcast shares, with the
strengthening that channels of connections not yet made are open and that a
broadcast's remaining subscribers are still subscribed; from it `NoSendOnClosed`;
and `CountsCorrect`. `UsesBroker` is the refinement `Spec => B!Spec`: whatever the
handlers, the senders and the shutdown do to the broker's state is a step of the
broker, so both hold of the handlers, which is `BrokerStaysIntact`
(`BrokerIntact`). About the streams, for any filters: `StreamCorrect` is the
shape of a connection at each of its points. `OnceCorrect`: `SentOK`, a channel
gets an event once unless it is broadcast again, and `OnceOK`, what a live
connection wrote above its backfill came through its channel and does not come
again, with the same exception; they give `NoEventTwice` (`NoDuplicates`). `CommitsCorrect`: where commits follow ids, the ids below a
stored one are stored, so a backfill has all of its filter up to its highest id, and
what a connection has not got is in its channel, on its way there or yet to be
broadcast; this gives `NoneLostInBetween`. `ClientCorrect` carries that over the
connections of a browser: `OpenOK` (a browser listens to one connection, which it
opened with the last id it had), `OrderOK` (events are first broadcast one by one),
`GapsOK` (what is below a frame, or below an event in the buffer, came before it,
although repeats go back) and `ResumedOK` (nor do all of
a browser's connections below the id it would resume from). With the former it
gives `NoEventLost` (`NothingLost`).

*ListenerProofs.* `StateCorrect`. `RepeatsCorrect`, in whatever order rows
commit: `CopiesOK` counts the copies of a row that were handed out, wait in the
channel, on the wire, or in a gap fill, and a lost connection that has not been
established again as one to come; the sum is at most one and one per loss. `RowsHandedOut`,
which is `EachRowHandedOut`, also in any order: `OrderOK` (what is under way is
committed, and a row that is not late is notified after those below it), `ComingOK`
(a row not handed out yet, and not late, is above `lastSeenID`, and is held, on the
wire, lost with the connection, or ahead of the gap fill, where nothing overtakes
it) and `PromptOK` (on the first connection every such row, late or not, is held or
on the wire).

*LogShipperProofs.* `NoEntryLost`: `EveryEntryAccounted` is inductive together with
`Barrier` (once Shutdown has its lock no `Handle` call is about to push, and the
drain begins only after that) and `Held` (`add` holds one entry, and the final
flush leaves only the kept batch). `FlushConserves` is the heart of it: whatever
the two sends of a flush return, what it had is acknowledged, counted or kept.
`RequestsInOrder` is `RequestsCorrect`: `QueueOK` (numbers rise from the kept
batch through the batch and the entry in hand to the channel), `ServedOK` (what
was sent comes before what is held, except that the kept batch may be the last
one sent) and `SizesOK` (`batchBytes` is what the batch will take as a request). The
size of a batch is a sum over a sequence; that appending adds one term is proved by
the least index at which it would not.

*AnalysisReportsProofs.* `DataCorrect`. `MailsCorrect` (`MailedReportsAreStored`),
with the row's status at each point of the worker. `FiringsCorrect`
(`FiresOncePerWindow`): `FiringOK` says that a report the ticker inserted is
still being enqueued, or that its schedule, and every copy of it the ticker has listed,
carries a stamp from the report's window on, which `isDue` then refuses.

*AccountsProofs.* A lemma reduces each of the handlers' steps to one of a few
effects on the tables (`Effects`), and the invariants are shown to survive the
effects. `IdentityCorrect` (`IdentityKeepsItsAccount`): subjects in the table
are distinct, and a session opened for an identity is of the row that has its
subject, although names change hands and requests overlap. `SessionsCorrect`
(`SessionsInOrder`): an account has at most `MaxSessions` sessions and one more per
request about to prune; a session of an earlier password has a request about
to purge it, or was opened late.

*Only model-checked.* All liveness, and what speaks of `ENABLED`, is beyond the
prover used. `Filters` is recursive, which the prover's SMT translation does not
take, and `Mutes`, `Events`, `Overview` and `Analyzer` build on it. The
properties of `Settings` and `Summaries`, and of `TaillightShipper`, whose lines
and records would each need an induction over sequences, are left to TLC.

*On the prover.* tlapm 1.4.5 gives the SMT solver an axiom on `Len` that is too
strong for a function whose domain is not an interval from one. No proof
here uses it that way: every SMT obligation of the modules that take
lengths was also solved with the axiom restricted to sequences.

## 5. Findings

*An event may be lost between backfill and live stream* (run `stream_gap`,
`handler/sse_stream.go:159`). Ids are drawn before commit. An event that commits
after the backfill query and below the highest id it returned is buffered, as the
comment says, and then skipped as a duplicate. `NothingLost` states what does hold.

Where code and comments or documents part without a run of their own, and what
the properties therefore except:

*Notifications.* A delivery whose own send failed may find the breaker open,
because its failure or another's just tripped it; it is then logged as
suppressed and not retried (`engine.go:538`), although `docs/NOTIFICATIONS.md:225`
promises the whole schedule "on failure". `engine.go:20` speaks of four attempts
in total; the schedule has four delays and the loop attempts five times. Jobs
still queued when the engine's context is cancelled are taken and given up without an
attempt (`engine.go:442`), where `serve.go:226` speaks of draining the queue.
With `silence_max < silence` the first digest shrinks the window
(`suppressor.go:242`); `SilenceOnlyGrows` says so. A backend that panics leaves no
row for the attempt, where `engine.go:421` says "Every attempt is logged".

*Streams.* "Close SSE brokers first so clients disconnect cleanly"
(`serve.go:218`): a broker accepts subscriptions after its `Shutdown`, and the HTTP
server is open until the listener and the engine have stopped, so a browser that
reconnects in between holds the server's shutdown to its timeout. For applogs the first row of
a backfill, newest by `received_at`, need not have the highest id
(`sse_stream.go:239`); then a row is written twice. A row the listener hands out
again after a reconnect is broadcast again, and only the backfill's last id is
compared, so a live connection may write it twice. Bridge workers broadcast
concurrently, so a client may receive 7 before 6 and resume after 7
(`serve.go:363`). A row that commits during an outage with an id below the last
one seen, and any row of a channel that had seen none, is not found by the gap
fill (`listener.go:273`, `:290`).

*Lists and ingest.* A batch that is committed but whose reply is lost is answered
500, so a client that retries stores it twice. Attributes that are JSON to Go and
not to jsonb for another reason than a NUL (half a surrogate pair, bytes that are not
UTF-8, a number out of range) are answered 500, and the whole batch is lost
however often it is sent. An export that fails midway looks like
a complete file with status 200, and exports ignore mute rules. A cursor that does
not parse starts again at the newest page. The search of applogs is by substring
of the message or the attributes on a live stream, and by word of the message in
SQL; `FiltersAgree` is about the other fields and feeds. Patterns and searches with
letters beyond ASCII may select differently in Go and in SQL, as the frontend
expects of `hide_muted` (`event-store-factory.ts:204`); `FiltersAgree` and
`MutesAgree` leave them out (`FoldsAlike`). A host all of whose severities occur
in both feeds gets the badge "srvlog": the query labels its rows "both", which
`postgres/host_store.go:314` does not look for (`model/host.go:17` lists the
badge "both"). Hourly aggregates leave out the partial
first hour, a share of the totals may exceed 100%, and a device without rows has
an invalid address.

*Analysis.* The samples of a message are its newest rows, where `gather.go:29`
calls them first observed. The top and severity queries have no upper bound while
the timeline stops at the period's end, so their totals may differ by the rows
that arrived during the run. When the corrected reply is invalid too, its tokens
are not counted. A context that ends after the last query of an empty
window still yields the report that nothing happened. A "run now" that is completed
before the tick of its window lets the window run twice, where
`scheduler/analysis.go:149` says that both collide "instead of running twice":
the index covers active reports only. `FiresOncePerWindow` counts what the
ticker fires.

*Settings and summaries.* `openapi.yml` says that `top_n` defaults to 25 and that
`channel_ids` is not empty; an update stores what it is sent. With no
queried kind and a negative `top_n` the ticker's goroutine panics. A schedule is due
in the minute of its time only (`summary.go:107`): a tick taken late, a slow list of
the schedules, or a summary before it that is slow to be delivered skips it for a
whole period. `openapi.yml:3848` says of `severity_max` "Only include events at
or below this severity"; applog events, and the sections of a summary, ignore it.
A kind that `event_kinds` lists twice takes the place of other issues. "Send now"
stamps the schedule, and a slow one may replace a later stamp. Deleting a channel
may leave a rule or schedule with none. An update with a masked secret, whose read
is stale, brings an older secret back.

*Shipper command.* Lines written to the old file after its last end-of-file read
and before the rename is noticed are lost. A file truncated and refilled past the
position goes unnoticed, and a path replaced between stat and open is read twice.
Half a line at the end of a file that is rotated or truncated is shipped as a
record of its own, where `tailFile` is to send complete lines (`tailer.go:70`), and
so is the rest of it when it follows in the new file. Half a line at shutdown is dropped, and `min_level` has no effect on tailed lines.

## 6. Hazards

`PROJECT.json` lists where this code is hard to test: what is decided under a
lock and done after it, channels closed under senders, ids that are not in
commit order, counters kept beside maps, retries around a breaker, shutdown
waiting on blocked goroutines, crashes between two writes, requests that write
what they read before another's write, views read by statements that see
different rows, one lookup of many that fails. Three have no property of their own:
subscriptions after `Broker.Shutdown`, where the code does what the hazard
says, and two of parts that are not modelled.

## 7. Not modelled, and why

Left out of the modelled parts: encodings and message texts, metrics, log output,
lengths of time (only their order), configuration parsing, time zones, names,
the percentages computed from modelled counts, and readers that change nothing
and that nothing else depends on (the delivery log, the pickers, the lists of
distinct values). In `Accounts` also email, preferences, the last login, the
login rate limiter and the expiry of keys. In `Analyzer` the wording of the
prompt and the layout of the stored markdown.

Parts without a module:

- *NetBox enrichment*: HTTP lookups behind a cache whose every operation holds
  one mutex; nothing else reads the answer.
- *Notification backends, report rendering*: texts and I/O. `Delivery` uses the
  outcome of a send, `Settings` what `Validate` requires.
- *Python SDK handler*: the design of the Go log shipper with a thread in the
  goroutine's place; `LogShipper` is the model of the design. Its join that times
  out while the thread is sending is listed as a hazard.
- *Frontend*: presentation, and an event store no other part reads; the stream
  under it is the client of `SSEStream`, the pages are the walks of `Events`.
- *Juniper reference, rsyslog statistics, own metrics*: loaded once, or appended
  and charted; no decision depends on them.
- *Migrations, rsyslog configuration, load generators, configuration, metrics*:
  schema, deployment, test data, values and counters. The insert trigger's
  `pg_notify` is the external `Commit` of `Listener`.

The shutdown order of `serve.go` is in each module as far as it concerns that
module; one module with all of it would be a product of parts that share
nothing but the order.
