----------------------------- MODULE MCLogShipper -----------------------------
(* Small instances of the log shipper for TLC. *)
EXTENDS LogShipper, TLC

CONSTANTS p1, p2

\* Entry 2 takes two units, entry 4 fits in no request.
MCSize == [e \in Entries |-> CASE e = 2 -> 2 [] e = 4 -> 9 [] OTHER -> 1]
=============================================================================
