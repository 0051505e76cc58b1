----------------------------- MODULE MCSummaries -----------------------------
(***************************************************************************)
(* Two channels, one rule, two schedules, one "send now" at a time.        *)
(***************************************************************************)
EXTENDS Summaries

Str(s) == [obj |-> FALSE, val |-> s]
Hook(cfg) == [named |-> TRUE, type |-> "webhook", config |-> cfg]
Headers(f) == [obj |-> TRUE, val |-> f]

MCChannelInputs ==
  { Hook([url |-> Str("u1"), headers |-> Headers([h1 |-> "s1"])]),
    Hook([url |-> Str("u2"), headers |-> Headers([h1 |-> RedactedSecret, h2 |-> "s2"])]),
    [named |-> TRUE, type |-> "slack", config |-> [webhook_url |-> Str("u1")]] }

MCStartChannels ==
  [c \in ChannelIds |-> IF c = 1 THEN Hook([url |-> Str("u0"), headers |-> Headers([h1 |-> "s0"])])
                        ELSE None]

Rule(kind, filter, chans) == [named |-> TRUE, kind |-> kind, filter |-> filter, channels |-> chans]
MCRuleInputs ==
  { Rule("srvlog", [severity |-> 8], {1}),
    Rule("netlog", [severity_max |-> 3, search |-> "x"], {1, 2}),
    Rule("applog", [level |-> "WARN", msgid |-> "m"], {2}) }

Schedule(freq, at, kinds, topN, sevMax) ==
  [enabled |-> TRUE, freq |-> freq, day |-> 0, at |-> at, kinds |-> kinds,
   channels |-> {1}, topN |-> topN, sevMax |-> sevMax, host |-> ""]
MCSummaryInputs ==
  { Schedule("daily", 1, <<"srvlog", "applog">>, 2, None),
    [Schedule("daily", 1, <<"applog", "srvlog", "applog">>, 2, 2) EXCEPT !.enabled = FALSE],
    Schedule("weekly", 2, <<"other">>, -1, None) }

Issue(kind, sev, cnt) == [kind |-> kind, sev |-> sev, host |-> "h", cnt |-> cnt]
MCIssues ==
  { Issue("srvlog", 3, 5), Issue("srvlog", 3, 1), Issue("srvlog", 6, 9),
    Issue("applog", "ERROR", 2), Issue("applog", "WARN", 7), Issue("applog", "INFO", 9) }

Symmetry == Permutations(Requests)
=============================================================================
