------------------------------- MODULE Filters --------------------------------
(***************************************************************************)
(* Which events a filter selects, twice: in memory, for live streams,      *)
(* notification rules and mute marks (Matches of internal/model), and in   *)
(* SQL, for lists, exports, backfill and the exclusion of muted rows       *)
(* (internal/postgres/syslogfilter.go and applog_store.go).                *)
(*                                                                         *)
(* A text is a sequence of characters, where a property depends on what is *)
(* in it; any other field is an opaque value.  None is a field not set.    *)
(***************************************************************************)
EXTENDS Integers, Sequences, SequencesExt, FiniteSets, FiniteSetsExt, TLC

CONSTANTS
  None,
  Invalid,       \* a query parameter that is too long or does not parse
  localeLowered  \* what the database's locale makes of letters beyond ASCII

-----------------------------------------------------------------------------
(* Text *)

Has(s, c) == \E i \in DOMAIN s : s[i] = c
From(s, i) == SubSeq(s, i, Len(s))
Chars(s, F(_)) == FlattenSeq([i \in DOMAIN s |-> F(s[i])])

\* Go lowers every letter of Unicode; E' and e' stand for those beyond ASCII.
lowered == "A" :> "a" @@ "B" :> "b" @@ "E'" :> "e'"
Lower(c) == IF c \in DOMAIN lowered THEN lowered[c] ELSE c
ToLower(s) == [i \in DOMAIN s |-> Lower(s[i])]

IsAscii(s) == ~Has(s, "E'") /\ ~Has(s, "e'")
SqlLower(c) ==
  IF IsAscii(<<c>>) THEN Lower(c)
  ELSE IF c \in DOMAIN localeLowered THEN localeLowered[c] ELSE c

TrimSpace(s) ==
  LET kept == {i \in DOMAIN s : s[i] # " "}
  IN  IF kept = {} THEN <<>> ELSE SubSeq(s, Min(kept), Max(kept))

Split(s, sep) ==
  FoldLeft(LAMBDA parts, c :
             IF c = sep THEN Append(parts, <<>>)
             ELSE [parts EXCEPT ![Len(parts)] = Append(@, c)],
           << <<>> >>, s)

\* strings.Index in s from pos on, or -1.
Index(s, part, pos) ==
  LET at == {i \in pos..(Len(s) - Len(part)) : SubSeq(s, i + 1, i + Len(part)) = part}
  IN  IF at = {} THEN -1 ELSE Min(at)

HasSuffix(s, part) ==
  Len(part) <= Len(s) /\ From(s, Len(s) - Len(part) + 1) = part

-----------------------------------------------------------------------------
(* In memory *)

\* Where the parts before i end in lower, or -1 when one of them is missing.
matchParts(lower, parts) ==
  LET Place(pos, i) ==
        LET idx == Index(lower, parts[i], pos)
        IN  IF pos = -1 \/ parts[i] = <<>> THEN pos
            ELSE IF idx = -1 \/ (i = 1 /\ idx # 0) THEN -1
            ELSE idx + Len(parts[i])
  IN  FoldLeftDomain(Place, 0, parts)

matchWildcard(value, pattern) ==
  LET lower == ToLower(value)
      parts == Split(ToLower(pattern), "*")
  IN  IF ~Has(pattern, "*") THEN lower = ToLower(pattern)
      ELSE matchParts(lower, parts) # -1 /\ HasSuffix(lower, Last(parts))

matchField(value, pattern) ==
  IF Has(pattern, "*") THEN matchWildcard(value, pattern) ELSE value = pattern

hasPrefixFold(s, prefixLower) ==
  Len(prefixLower) <= Len(s) /\ \A i \in DOMAIN prefixLower : Lower(s[i]) = prefixLower[i]

containsFold(s, substrLower) ==
  substrLower = <<>> \/ \E i \in DOMAIN s : hasPrefixFold(From(s, i), substrLower)

searchNeedle(search) == ToLower(search)

\* Fields of a syslog filter that an event must equal.
EqualFields == {"FromhostIP", "Programname", "Severity", "Facility", "SyslogTag", "MsgID"}

SrvlogMatches(f, e) ==
  /\ f.Hostname # None => matchField(e.Hostname, f.Hostname)
  /\ \A k \in EqualFields : f[k] # None => e[k] = f[k]
  /\ f.SeverityMax # None => e.Severity <= f.SeverityMax
  /\ f.Search # None => containsFold(e.Message, searchNeedle(f.Search))

\* The same code over the netlog types.
NetlogMatches(f, e) == SrvlogMatches(f, e)

ValidAppLogLevels == [DEBUG |-> 0, INFO |-> 1, WARN |-> 2, ERROR |-> 3, FATAL |-> 4]

levelAliases ==
  [TRACE |-> "DEBUG", D |-> "DEBUG", NOTICE |-> "INFO", I |-> "INFO", WARNING |-> "WARN",
   W |-> "WARN", ERR |-> "ERROR", E |-> "ERROR", CRITICAL |-> "FATAL", CRIT |-> "FATAL",
   EMERG |-> "FATAL", ALERT |-> "FATAL", SEVERE |-> "FATAL", PANIC |-> "FATAL"]

\* Level names stand for all their spellings in either case.
NormalizeLevel(level) ==
  IF level \in DOMAIN ValidAppLogLevels THEN level
  ELSE IF level \in DOMAIN levelAliases THEN levelAliases[level] ELSE None

AppLogLevelRank(level) ==
  IF level \in DOMAIN ValidAppLogLevels THEN ValidAppLogLevels[level] ELSE -1

AppLogMatches(f, e) ==
  /\ f.Service # None => e.Service = f.Service
  /\ f.Component # None => e.Component = f.Component
  /\ f.Host # None => matchField(e.Host, f.Host)
  /\ f.LevelExact # None => e.Level = f.LevelExact
  /\ f.Level # None => /\ AppLogLevelRank(f.Level) >= 0
                       /\ AppLogLevelRank(e.Level) >= AppLogLevelRank(f.Level)
  /\ f.Search # None => \/ containsFold(e.Msg, searchNeedle(f.Search))
                        \/ containsFold(e.Attrs, searchNeedle(f.Search))

-----------------------------------------------------------------------------
(* Query parameters *)

str(v) == v # Invalid
boundedInt(v, lo, hi) == v = None \/ (v # Invalid /\ v \in lo..hi)
ip(v) == v # Invalid
rfc3339(v) == v # Invalid
ParseHideMuted(v) == IF v = None THEN FALSE ELSE v

ParseSrvlogFilter(q) ==
  IF /\ \A k \in {"Hostname", "Programname", "SyslogTag", "MsgID", "Search"} : str(q[k])
     /\ ip(q.FromhostIP)
     /\ boundedInt(q.Severity, 0, 7) /\ boundedInt(q.SeverityMax, 0, 7)
     /\ boundedInt(q.Facility, 0, 23)
     /\ rfc3339(q.From) /\ rfc3339(q.To)
  THEN q @@ [Exclude |-> {}]
  ELSE Invalid

\* The same code over the netlog types.
ParseNetlogFilter(q) == ParseSrvlogFilter(q)

ParseAppLogFilter(q) ==
  IF /\ \A k \in {"Service", "Component", "Host", "Search"} : str(q[k])
     /\ \A k \in {"Level", "LevelExact"} : q[k] # None => NormalizeLevel(q[k]) # None
     /\ rfc3339(q.From) /\ rfc3339(q.To)
  THEN [q EXCEPT !.Level = NormalizeLevel(@), !.LevelExact = NormalizeLevel(@)]
  ELSE Invalid

ParseLimit(v, defaultLimit, maxLimit) ==
  IF v = None \/ v = Invalid THEN defaultLimit
  ELSE IF v < 1 THEN defaultLimit ELSE Min({v, maxLimit})

-----------------------------------------------------------------------------
(* In SQL *)

\* Mutant: an underscore stays a wildcard.
EscapesPercent(s) ==
  Chars(s, LAMBDA c : IF c \in {"\\", "%"} THEN <<"\\", c>> ELSE <<c>>)

escapeLike(s) ==
  Chars(s, LAMBDA c : IF c \in {"\\", "%", "_"} THEN <<"\\", c>> ELSE <<c>>)

\* PostgreSQL: value ILIKE pattern, with the backslash as the escape.
RECURSIVE ILike(_, _)
ILike(value, pattern) ==
  IF pattern = <<>> THEN value = <<>>
  ELSE IF Head(pattern) = "%"
  THEN \E i \in 1..(Len(value) + 1) : ILike(From(value, i), Tail(pattern))
  ELSE LET escaped == Head(pattern) = "\\"
           c == IF escaped THEN pattern[2] ELSE Head(pattern)
       IN  /\ value # <<>>
           /\ (c = "_" /\ ~escaped) \/ SqlLower(Head(value)) = SqlLower(c)
           /\ ILike(Tail(value), From(pattern, IF escaped THEN 3 ELSE 2))

\* PostgreSQL: every word of the search is a word of the message.
TSMatches(msg, search) ==
  LET Words(s) == ToSet(Split([i \in DOMAIN s |-> SqlLower(s[i])], " ")) \ {<<>>}
  IN  Words(search) \subseteq Words(msg)

\* hostname or host: a star makes it a pattern.
HostCond(value, host) ==
  IF Has(host, "*")
  THEN ILike(value, Chars(escapeLike(host), LAMBDA c : IF c = "*" THEN <<"%">> ELSE <<c>>))
  ELSE value = host

syslogFilterClause ==
  EqualFields \cup {"Hostname", "SeverityMax", "Search", "From", "To"}

\* One condition per set field, and whether row e satisfies it.
syslogConds(f, e) ==
  [k \in {k \in syslogFilterClause : f[k] # None} |->
     CASE k = "Hostname"    -> HostCond(e.Hostname, f.Hostname)
       [] k = "Search"      -> ILike(e.Message, <<"%">> \o escapeLike(f.Search) \o <<"%">>)
       [] k = "SeverityMax" -> e.Severity <= f.SeverityMax
       [] k = "From"        -> e.ReceivedAt >= f.From
       [] k = "To"          -> e.ReceivedAt <= f.To
       [] OTHER             -> e[k] = f[k]]

applySyslogFilter(f, e) ==
  \A k \in DOMAIN syslogConds(f, e) : syslogConds(f, e)[k]

\* NOT (conditions), or nothing when f sets no field.
excludeSyslog(f, e) ==
  DOMAIN syslogConds(f, e) # {} => ~applySyslogFilter(f, e)

srvlogClause(f) == [k \in syslogFilterClause |-> f[k]]
netlogClause(f) == [k \in syslogFilterClause |-> f[k]]

applySrvlogFilter(f, e) ==
  /\ applySyslogFilter(srvlogClause(f), e)
  /\ \A ex \in f.Exclude : excludeSyslog(srvlogClause(ex), e)

applyNetlogFilter(f, e) ==
  /\ applySyslogFilter(netlogClause(f), e)
  /\ \A ex \in f.Exclude : excludeSyslog(netlogClause(ex), e)

appLogLevelsAtOrAbove(minRank) ==
  {l \in DOMAIN ValidAppLogLevels : ValidAppLogLevels[l] >= minRank}

applyAppLogFilter(f, e) ==
  /\ f.Service # None => e.Service = f.Service
  /\ f.Component # None => e.Component = f.Component
  /\ f.Host # None => HostCond(e.Host, f.Host)
  /\ f.LevelExact # None => e.Level = f.LevelExact
  /\ f.Level # None => e.Level \in appLogLevelsAtOrAbove(AppLogLevelRank(f.Level))
  /\ f.Search # None => TSMatches(e.Msg, f.Search)
  /\ f.From # None => e.ReceivedAt >= f.From
  /\ f.To # None => e.ReceivedAt <= f.To
===============================================================================
