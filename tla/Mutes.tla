-------------------------------- MODULE Mutes ---------------------------------
(***************************************************************************)
(* Mute rules: the rows operators create, extend and end through the API   *)
(* (internal/handler/mute_rule.go, internal/postgres/mute_rule_store.go)   *)
(* and the copy in memory that marks events (internal/mute).  A write      *)
(* commits first and reloads the copy afterwards; a ticker reloads it too. *)
(***************************************************************************)
EXTENDS Filters

CONSTANTS
  MuteIds,           \* ids of mute_rules rows, taken in order
  StartMutes,        \* the table at the start
  MuteInputs,        \* bodies of POST /mute-rules
  Durations,         \* values of duration_ms
  DefaultDuration, MaxDuration,
  Writers, Ticker,   \* request goroutines, and Set.Run
  MaxTime,
  MaxSteps           \* steps of everything outside the code under test

VARIABLES
  now,
  muteRows,          \* the mute_rules table: [MuteIds -> Rule or None]
  rules,             \* Set.rules, by id
  reloadMu,          \* holder of Set.reloadMu, or None
  task,              \* what each writer and the ticker is doing
  acked,             \* ghost: the row of an id, from the reload that followed its write
  steps              \* how much of MaxSteps is used

muteVars == <<now, muteRows, rules, reloadMu, task, acked>>

Feeds == {"srvlog", "netlog"}
Idle == [pc |-> "idle"]
Outside(n) == steps + n <= MaxSteps /\ steps' = steps + n

-----------------------------------------------------------------------------
(* internal/mute: one rule, and a snapshot of the rules *)

NoFilter == [k \in syslogFilterClause |-> None]

NetlogFilter(r) ==
  [NoFilter EXCEPT !.Hostname = r.Hostname, !.Programname = r.Programname, !.Search = r.Search]

SrvlogFilter(r) ==
  [NoFilter EXCEPT !.Hostname = r.Hostname, !.Programname = r.Programname, !.Search = r.Search]

\* A trimmed body field; an empty one is not set.
Trimmed(v) == IF v = None \/ TrimSpace(v) = <<>> THEN None ELSE TrimSpace(v)

Validate(r) ==
  /\ r.Feed \in Feeds
  /\ \/ r.Hostname # None /\ \E i \in DOMAIN r.Hostname : r.Hostname[i] # "*"
     \/ r.Programname # None
     \/ r.Search # None
  /\ r.Reason

ExpiresAt(durationMS) ==
  IF durationMS = 0 THEN now + DefaultDuration
  ELSE IF durationMS \in 1..MaxDuration THEN now + durationMS ELSE Invalid

\* acked is carried along for the properties.
Active == [rules |-> rules, now |-> now, acked |-> acked]

SnapActive(snap, feed) ==
  {i \in MuteIds : snap.rules[i] # None /\ snap.rules[i].Feed = feed
                                        /\ snap.now < snap.rules[i].ExpiresAt}

Lowest(ids) == IF ids = {} THEN None ELSE Min(ids)

MatchSrvlog(snap, e) ==
  Lowest({i \in SnapActive(snap, "srvlog") : SrvlogMatches(SrvlogFilter(snap.rules[i]), e)})

MatchNetlog(snap, e) ==
  Lowest({i \in SnapActive(snap, "netlog") : NetlogMatches(NetlogFilter(snap.rules[i]), e)})

SrvlogExclusions(snap) == {SrvlogFilter(snap.rules[i]) : i \in SnapActive(snap, "srvlog")}
NetlogExclusions(snap) == {NetlogFilter(snap.rules[i]) : i \in SnapActive(snap, "netlog")}

-----------------------------------------------------------------------------
(* The table *)

ListMuteRules(expiresAfter) ==
  [i \in MuteIds |-> IF muteRows[i] # None /\ muteRows[i].ExpiresAt > expiresAfter
                     THEN muteRows[i] ELSE None]

Store(i, r) ==
  /\ muteRows' = [muteRows EXCEPT ![i] = r]
  /\ acked' = [acked EXCEPT ![i] = None]

CreateMuteRule(r) ==
  LET free == {i \in MuteIds : muteRows[i] = None}
  IN  free # {} /\ Store(Min(free), r)

SetMuteRuleExpiry(i, at) ==
  muteRows[i] # None /\ Store(i, [muteRows[i] EXCEPT !.ExpiresAt = at])

EndMuteRule(i) ==
  muteRows[i] # None /\ Store(i, [muteRows[i] EXCEPT !.ExpiresAt = Min({@, now})])

-----------------------------------------------------------------------------
(* Handlers: what is refused writes nothing; a committed write reloads *)

Written(t) ==
  /\ task[t] = Idle
  /\ Outside(1)
  /\ task' = [task EXCEPT ![t] = [pc |-> "reload"]]
  /\ UNCHANGED <<now, rules, reloadMu>>

Create(t) ==
  \E in \in MuteInputs, d \in Durations :
    LET r == [Feed |-> in.Feed, Hostname |-> Trimmed(in.Hostname),
              Programname |-> Trimmed(in.Programname), Search |-> Trimmed(in.Search),
              Reason |-> in.Reason, ExpiresAt |-> ExpiresAt(d)]
    IN  /\ r.ExpiresAt # Invalid
        /\ Validate(r)
        /\ CreateMuteRule(r)
        /\ Written(t)

ExpireIn(t) ==
  \E i \in MuteIds, d \in Durations :
    /\ ExpiresAt(d) # Invalid
    /\ SetMuteRuleExpiry(i, ExpiresAt(d))
    /\ Written(t)

Unmute(t) ==
  \E i \in MuteIds : EndMuteRule(i) /\ Written(t)

-----------------------------------------------------------------------------
(* Set.Reload: list under the lock, then replace *)

\* A writer after its write, and Set.Run at every tick.
Reloading(t) == task[t].pc = "reload" \/ (t = Ticker /\ task[t] = Idle)

\* Mutant: the reload does not lock out the others.
ListsUnlocked(t) ==
  /\ Reloading(t)
  /\ task' = [task EXCEPT ![t] = [pc |-> "listed", rules |-> ListMuteRules(now), table |-> muteRows]]
  /\ UNCHANGED <<now, muteRows, rules, reloadMu, acked, steps>>

ReloadLists(t) ==
  /\ Reloading(t)
  /\ reloadMu = None
  /\ reloadMu' = t
  /\ task' = [task EXCEPT ![t] = [pc |-> "listed", rules |-> ListMuteRules(now), table |-> muteRows]]
  /\ UNCHANGED <<now, muteRows, rules, acked, steps>>

Replace(t) ==
  /\ task[t].pc = "listed"
  /\ rules' = task[t].rules
  /\ reloadMu' = None
  /\ task' = [task EXCEPT ![t] = Idle]
  /\ acked' = [i \in MuteIds |-> IF muteRows[i] = task[t].table[i] THEN muteRows[i] ELSE acked[i]]
  /\ UNCHANGED <<now, muteRows, steps>>

\* The query fails or times out; the rules stay.  A tick that fails changes nothing.
ReloadFails(t) ==
  /\ task[t].pc = "reload"
  /\ reloadMu = None
  /\ Outside(1)
  /\ task' = [task EXCEPT ![t] = Idle]
  /\ UNCHANGED <<now, muteRows, rules, reloadMu, acked>>

ClockAdvances ==
  /\ now < MaxTime
  /\ Outside(1)
  /\ now' = now + 1
  /\ UNCHANGED <<muteRows, rules, reloadMu, task, acked>>

\* The first load, which may fail and leave nothing muted.
MutesInit ==
  /\ now = 0
  /\ muteRows = StartMutes
  /\ reloadMu = None
  /\ task = [t \in Writers \cup {Ticker} |-> Idle]
  /\ \/ rules = ListMuteRules(now) /\ acked = muteRows /\ steps = 0
     \/ rules = [i \in MuteIds |-> None] /\ acked = rules /\ steps = 1

MutesNext ==
  \/ \E t \in Writers : Create(t) \/ ExpireIn(t) \/ Unmute(t) \/ ReloadFails(t)
  \/ \E t \in Writers \cup {Ticker} : ReloadLists(t) \/ Replace(t)
  \/ ClockAdvances
===============================================================================
