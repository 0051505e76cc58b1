------------------------------ MODULE MCListener ------------------------------
(* Small instances of the listener for TLC. *)
EXTENDS Listener, TLC

CONSTANTS srvlog, netlog

TwoChannels == <<srvlog, netlog>>
=============================================================================
