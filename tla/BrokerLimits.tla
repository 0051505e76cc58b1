----------------------------- MODULE BrokerLimits -----------------------------
(***************************************************************************)
(* The subscriptions of one feed and the limits of its broker              *)
(* (api/internal/broker/broker.go), for the broker and for the streams     *)
(* that use it.                                                            *)
(***************************************************************************)
EXTENDS Integers, Sequences, FiniteSets

CONSTANTS
  Subs,                     \* subscriptions; each is created at most once
  Clients,                  \* client keys; a key outside it is the empty one
  KeyOf,                    \* the client key of each subscription
  maxSubscribers,
  maxSubscribersPerClient,
  subscriptionBufferSize

ASSUME BrokerAssumption ==
  /\ IsFiniteSet(Subs)
  /\ maxSubscribers \in Nat
  /\ maxSubscribersPerClient \in Nat
  /\ subscriptionBufferSize \in Nat
=============================================================================
