-------------------------- MODULE MCTaillightShipper --------------------------
(* A small instance of the taillight-shipper command for TLC. *)
EXTENDS TaillightShipper

str(s) == [string |-> s]
num(n) == [other |-> n]

\* The text of the first line is cut in two, the second from its end.
MCPieces == << <<1>>, <<2, NL>>, <<3, 4>>, <<NL>> >>

\* JSON with a value of every kind under every name.  Two such lines that a
\* truncation has run together are plain text.
MCText ==
  <<[json |-> TRUE,
     fields |-> [time |-> str("t1"), timestamp |-> str("t2"), level |-> str("WARN"),
                 msg |-> str("a"), message |-> str("b"), user |-> num(7)]],
    [json |-> TRUE,
     fields |-> [time |-> num(5), timestamp |-> str("t2"), level |-> num(3),
                 msg |-> num(1), message |-> str("b"), host |-> str("h")]]>>
=============================================================================
