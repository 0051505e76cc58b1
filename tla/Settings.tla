------------------------------- MODULE Settings -------------------------------
(***************************************************************************)
(* Notification channels and rules as the API edits them: the handlers of  *)
(* internal/handler/notification.go, the secrets of internal/notification/ *)
(* secrets.go, Rule.Validate, and internal/postgres/notification_store.go. *)
(*                                                                         *)
(* A channel's config maps keys to JSON values: [obj |-> FALSE, val |-> s] *)
(* is a string, [obj |-> TRUE, val |-> f] an object with string members.   *)
(* A client reads secrets masked and may send the mask back.               *)
(***************************************************************************)
EXTENDS Naturals, FiniteSets

CONSTANTS
  ChannelIds, RuleIds,
  Requests,          \* concurrent HTTP requests
  ChannelInputs,     \* channels clients type in: [named, type, config]
  RuleInputs,        \* rules clients type in: [named, kind, filter, channels]
  EngineEnabled,     \* notification.enabled: with no engine nothing is validated
  None, Deleted,     \* a row that is not there yet, or no longer
  MaxEdits

VARIABLES
  channels,          \* notification_channels, by id
  rules,             \* notification_rules with their channel ids
  reqs,              \* UpdateChannel requests between their read and their write
  edits

RedactedSecret == "********"
Malformed == "malformed"    \* a value of the wrong form for its key

Absent == {None, Deleted}
Stored == {c \in ChannelIds : channels[c] \notin Absent}
Idle == [pc |-> "idle"]
Edits == edits < MaxEdits /\ edits' = edits + 1

-----------------------------------------------------------------------------
(* Secrets *)

secretKeys(type) ==
  CASE type = "slack"   -> {"webhook_url"}
    [] type = "webhook" -> {"url", "headers"}
    [] type = "ntfy"    -> {"token"}
    [] OTHER            -> {}

Secrets(ch) == secretKeys(ch.type) \cap DOMAIN ch.config

isMasked(v) == ~v.obj /\ v.val = RedactedSecret
isEmptyJSON(v) == IF v.obj THEN DOMAIN v.val = {} ELSE v.val = ""

maskJSONValue(v) ==
  IF v.obj THEN [v EXCEPT !.val = [k \in DOMAIN v.val |-> RedactedSecret]]
  ELSE [v EXCEPT !.val = RedactedSecret]

Redacted(ch) ==
  [ch EXCEPT !.config = [k \in DOMAIN ch.config |->
     IF k \in Secrets(ch) /\ ~isEmptyJSON(ch.config[k]) THEN maskJSONValue(ch.config[k])
     ELSE ch.config[k]]]

\* stored is None when the stored config lacks the key.
restoreJSONValue(raw, stored) ==
  IF stored = None THEN raw
  ELSE IF isMasked(raw) THEN stored
  ELSE IF ~raw.obj \/ ~stored.obj THEN raw
  ELSE [raw EXCEPT !.val = [k \in DOMAIN raw.val |->
          IF k \in DOMAIN stored.val /\ raw.val[k] = RedactedSecret THEN stored.val[k]
          ELSE raw.val[k]]]

WithSecretsFrom(ch, stored) ==
  IF ch.type # stored.type THEN ch
  ELSE [ch EXCEPT !.config = [k \in DOMAIN ch.config |->
          IF k \notin Secrets(ch) THEN ch.config[k]
          ELSE restoreJSONValue(ch.config[k],
                 IF k \in DOMAIN stored.config THEN stored.config[k] ELSE None)]]

\* Mutant: the members of a header object are not looked at.
ChecksStringsOnly(ch) == \E k \in Secrets(ch) : isMasked(ch.config[k])

HasRedactedSecret(ch) ==
  \E k \in Secrets(ch) :
    LET v == ch.config[k]
    IN  isMasked(v) \/ (v.obj /\ \E m \in DOMAIN v.val : v.val[m] = RedactedSecret)

-----------------------------------------------------------------------------
(* Channels *)

Given(cfg, keys) == \A k \in keys : k \in DOMAIN cfg /\ ~isEmptyJSON(cfg[k])
WellFormed(cfg, keys) == \A k \in keys \cap DOMAIN cfg : ~cfg[k].obj /\ cfg[k].val # Malformed

ValidSlack(cfg) == Given(cfg, {"webhook_url"}) /\ WellFormed(cfg, {"webhook_url"})

ValidWebhook(cfg) ==
  /\ Given(cfg, {"url"})
  /\ WellFormed(cfg, {"url", "method", "template"})
  /\ "headers" \in DOMAIN cfg =>
       /\ cfg["headers"].obj
       /\ DOMAIN cfg["headers"].val \cap {"host", "transfer-encoding", "content-length"} = {}

ValidNtfy(cfg) ==
  /\ Given(cfg, {"server_url", "topic"})
  /\ WellFormed(cfg, {"server_url", "priority"})

ValidEmail(cfg) == Given(cfg, {"to"}) /\ WellFormed(cfg, {"to", "subject_template"})

\* With no engine only the table's CHECK on the type is left.
ValidateChannel(ch) ==
  CASE ch.type = "slack"   -> EngineEnabled => ValidSlack(ch.config)
    [] ch.type = "webhook" -> EngineEnabled => ValidWebhook(ch.config)
    [] ch.type = "ntfy"    -> EngineEnabled => ValidNtfy(ch.config)
    [] ch.type = "email"   -> EngineEnabled => ValidEmail(ch.config)
    [] OTHER               -> FALSE

GetNotificationChannel(c) == channels[c]
ListNotificationChannels == {channels[c] : c \in Stored}

GetChannel(c) == Redacted(GetNotificationChannel(c))
ListChannels == {Redacted(ch) : ch \in ListNotificationChannels}

\* What a client sends: what it typed, or a redacted read, masks and all.
Bodies == ChannelInputs \cup ListChannels \cup {GetChannel(c) : c \in Stored}

CreateNotificationChannel(c, ch) ==
  /\ channels[c] = None
  /\ channels' = [channels EXCEPT ![c] = ch]

CreateChannel(c) ==
  /\ Edits
  /\ \E ch \in Bodies :
       /\ ch.named
       /\ ~HasRedactedSecret(ch)
       /\ ValidateChannel(ch)
       /\ CreateNotificationChannel(c, ch)
  /\ UNCHANGED <<rules, reqs>>

\* The handler reads the row, restores the masked secrets and validates.
UpdateChannel(q, c) ==
  /\ reqs[q] = Idle /\ c \in Stored /\ Edits
  /\ \E body \in Bodies :
       LET ch == WithSecretsFrom(body, GetNotificationChannel(c))
       IN  /\ ~HasRedactedSecret(ch)
           /\ ValidateChannel(ch)
           /\ reqs' = [reqs EXCEPT ![q] =
                [pc |-> "write", id |-> c, ch |-> ch, body |-> body, fresh |-> TRUE]]
  /\ UNCHANGED <<channels, rules>>

\* The requests whose read of c the write of c makes stale.
Outdated(c) ==
  [q \in Requests |-> IF reqs[q].pc = "write" /\ reqs[q].id = c
                      THEN [reqs[q] EXCEPT !.fresh = FALSE] ELSE reqs[q]]

\* Mutant: the body goes to the store as the client sent it.
WritesBody(q) ==
  /\ reqs[q].pc = "write"
  /\ channels' = [channels EXCEPT ![reqs[q].id] = reqs[q].body]
  /\ reqs' = [Outdated(reqs[q].id) EXCEPT ![q] = Idle]
  /\ UNCHANGED <<rules, edits>>

\* The write finds no row when the channel was deleted in between; it may fail.
UpdateNotificationChannel(q) ==
  /\ reqs[q].pc = "write"
  /\ \/ /\ reqs[q].id \in Stored
        /\ channels' = [channels EXCEPT ![reqs[q].id] = reqs[q].ch]
        /\ reqs' = [Outdated(reqs[q].id) EXCEPT ![q] = Idle]
     \/ reqs' = [reqs EXCEPT ![q] = Idle] /\ UNCHANGED channels
  /\ UNCHANGED <<rules, edits>>

\* Its rules lose the channel (ON DELETE CASCADE).
DeleteNotificationChannel(c) ==
  /\ c \in Stored
  /\ channels' = [channels EXCEPT ![c] = Deleted]
  /\ rules' = [r \in RuleIds |->
       IF rules[r] \in Absent THEN rules[r] ELSE [rules[r] EXCEPT !.channels = @ \ {c}]]

DeleteChannel(c) ==
  /\ Edits
  /\ DeleteNotificationChannel(c)
  /\ reqs' = Outdated(c)

-----------------------------------------------------------------------------
(* Rules *)

SyslogFields == {"hostname", "programname", "severity", "severity_max",
                 "facility", "syslogtag", "msgid"}
AppLogFields == {"service", "component", "host", "level"}

\* What each projection passes on to the kind's Matches.
SrvlogFilter == SyslogFields \cup {"search"}
NetlogFilter == SyslogFields \cup {"search"}
AppLogFilter == AppLogFields \cup {"search"}

validSeverityBound(f, k) == k \in DOMAIN f => f[k] \in 0 .. 7

Validate(r) ==
  /\ r.named
  /\ CASE r.kind \in {"srvlog", "netlog"} ->
              /\ DOMAIN r.filter \cap AppLogFields = {}
              /\ validSeverityBound(r.filter, "severity")
              /\ validSeverityBound(r.filter, "severity_max")
              /\ "facility" \in DOMAIN r.filter => r.filter["facility"] \in 0 .. 23
       [] r.kind = "applog" ->
              /\ DOMAIN r.filter \cap SyslogFields = {}
              /\ "level" \in DOMAIN r.filter =>
                   r.filter["level"] \in {"DEBUG", "INFO", "WARN", "ERROR", "FATAL"}
       [] OTHER -> FALSE

\* The row and its associations are one transaction: a channel that does not
\* exist undoes it.
insertRuleChannels(ids) == ids \subseteq Stored

CreateNotificationRule(r, rule) ==
  /\ rules[r] = None
  /\ rules' = [rules EXCEPT ![r] = rule]
  /\ insertRuleChannels(rule.channels)

UpdateNotificationRule(r, rule) ==
  /\ rules[r] \notin Absent
  /\ rules' = [rules EXCEPT ![r] = rule]
  /\ insertRuleChannels(rule.channels)

DeleteNotificationRule(r) ==
  /\ rules[r] \notin Absent
  /\ rules' = [rules EXCEPT ![r] = Deleted]

CreateRule(r) ==
  /\ Edits
  /\ \E rule \in RuleInputs : Validate(rule) /\ CreateNotificationRule(r, rule)
  /\ UNCHANGED <<channels, reqs>>

UpdateRule(r) ==
  /\ Edits
  /\ \E rule \in RuleInputs : Validate(rule) /\ UpdateNotificationRule(r, rule)
  /\ UNCHANGED <<channels, reqs>>

DeleteRule(r) == Edits /\ DeleteNotificationRule(r) /\ UNCHANGED <<channels, reqs>>

SettingsNext ==
  \/ \E c \in ChannelIds :
       CreateChannel(c) \/ DeleteChannel(c) \/ \E q \in Requests : UpdateChannel(q, c)
  \/ \E q \in Requests : UpdateNotificationChannel(q)
  \/ \E r \in RuleIds : CreateRule(r) \/ UpdateRule(r) \/ DeleteRule(r)

-----------------------------------------------------------------------------
Texts(v) == IF v.obj THEN {v.val[m] : m \in DOMAIN v.val} ELSE {v.val}

\* No stored credential is the mask: whatever clients copy from redacted reads
\* into new channels, and however updates interleave with deletions and changes of
\* a channel's type, CreateChannel and UpdateChannel never save "********".
SecretsStayReal ==
  \A c \in Stored : \A k \in Secrets(channels[c]) :
    RedactedSecret \notin Texts(channels[c].config[k])

\* An update whose read is still current when it writes keeps every secret its
\* client left masked, header by header (WithSecretsFrom).  A write in between
\* makes the read stale, and the older secret comes back.
MaskedSecretsSurvive ==
  [][\A q \in Requests :
       reqs[q].pc = "write" /\ reqs[q].fresh /\ reqs'[q] = Idle =>
         LET old == channels[reqs[q].id]
             new == channels'[reqs[q].id]
             body == reqs[q].body
         IN  body.type = old.type =>
               \A k \in Secrets(body) \cap DOMAIN old.config :
                 LET b == body.config[k]
                     o == old.config[k]
                 IN  /\ isMasked(b) => new.config[k] = o
                     /\ b.obj /\ o.obj => \A m \in DOMAIN b.val \cap DOMAIN o.val :
                          b.val[m] = RedactedSecret => new.config[k].val[m] = o.val[m]
    ]_<<channels, reqs>>

\* Every field a stored rule sets is one its kind's projection hands to Matches,
\* and every channel it names exists: Validate and the foreign key leave no rule
\* that is wider, or quieter, than its author wrote.
RulesMeanWhatTheySay ==
  \A r \in RuleIds : rules[r] \notin Absent =>
    /\ rules[r].channels \subseteq Stored
    /\ DOMAIN rules[r].filter \subseteq
         CASE rules[r].kind = "srvlog" -> SrvlogFilter
           [] rules[r].kind = "netlog" -> NetlogFilter
           [] rules[r].kind = "applog" -> AppLogFilter

\* What is stored is what an admin meant: no secret is a mask, no rule is wider
\* or quieter than it says.
SettingsSound == SecretsStayReal /\ RulesMeanWhatTheySay
=============================================================================
