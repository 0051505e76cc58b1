------------------------- MODULE MCNotificationEngine -------------------------
(* Small instances of the notification engine for TLC. *)
EXTENDS NotificationEngine, TLC

CONSTANTS r1, g1, c1, h1, w1, w2

MCDefaultWindows == [silence |-> 1, silenceMax |-> 1, coalesce |-> 0]

Row(s, cs, coalesce) ==
  [state |-> s, channels |-> cs,
   windows |-> [silence |-> 0, silenceMax |-> 0, coalesce |-> coalesce]]

\* A rule for every channel, on or off; all its windows but the coalesce
\* window, which is none, are left to the defaults.
MCRuleRows == {Row("enabled", Channels, 0), Row("disabled", Channels, 0)}
=============================================================================
