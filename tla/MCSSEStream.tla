------------------------------ MODULE MCSSEStream -----------------------------
(* Small instances of SSE streaming for TLC. *)
EXTENDS SSEStream, TLC

CONSTANTS s1, s2, browser

\* Each guarantee under the order it needs, and nothing else in order.
MCOrders == {{"commits"}, {"stamps"}, {"commits", "stamps", "broadcasts"}}
NoOrder == {{}}

\* One browser connects, and connects again.
MCKeyOf == [s \in Subs |-> browser]

\* It comes back with a narrower filter.
MCWants == [s \in Subs |-> IF s = s1 THEN Ids ELSE Ids \ {1}]

\* Repeats are explored while the server runs and where stamps are in order.
RepeatsWhileRunning == repeats = 0 \/ (server = "running" /\ "stamps" \in ordered)
=============================================================================
