------------------------------ MODULE MCDelivery ------------------------------
(* Small instances of the delivery of notifications for TLC. *)
EXTENDS Delivery, TLC

CONSTANTS d1, d2, d3
===============================================================================
