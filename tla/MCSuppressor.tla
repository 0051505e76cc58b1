----------------------------- MODULE MCSuppressor -----------------------------
(* Small instances of the suppressor for TLC. *)
EXTENDS Suppressor, TLC

CONSTANTS r1, g1, g2, g3

\* A rule without and a rule with a coalesce window, the latter with a silence
\* above its maximum, which nothing forbids; a rule may be edited, so
\* either may be in force when a fingerprint opens.
MCWindows == {[silence |-> 1, silenceMax |-> 2, coalesce |-> 0],
              [silence |-> 3, silenceMax |-> 2, coalesce |-> 1]}
=============================================================================
