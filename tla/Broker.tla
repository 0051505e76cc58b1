-------------------------------- MODULE Broker --------------------------------
(***************************************************************************)
(* The SSE broker of one feed (api/internal/broker/broker.go).             *)
(*                                                                         *)
(* Subscribe, Unsubscribe and Shutdown hold mu for writing and are one     *)
(* step each.  Broadcast holds it for reading while it goes through the    *)
(* subscribers, so the loops of several broadcasts interleave; each send   *)
(* to a subscriber is a step.                                              *)
(***************************************************************************)
EXTENDS BrokerLimits

CONSTANTS
  Wants,                    \* the messages that match a subscription's filter
  Msgs,
  Senders                   \* goroutines that broadcast

VARIABLES
  subscribers,
  byClient,                 \* connections per client key; 0 for a missing key
  ch, chClosed,             \* each subscription's channel
  created,                  \* subscriptions handed out
  sending,                  \* broadcasts that hold mu for reading
  left,                     \* the subscribers each has still to visit
  \* Observation only.
  dropped                   \* messages a slow client missed

subVars  == <<subscribers, byClient, ch, chClosed, created>>
loopVars == <<sending, left>>
vars     == <<subVars, loopVars, dropped>>

Init ==
  /\ subscribers = {}
  /\ byClient = [c \in Clients |-> 0]
  /\ ch = [s \in Subs |-> <<>>]
  /\ chClosed = [s \in Subs |-> FALSE]
  /\ created = {}
  /\ sending = {}
  /\ left = [b \in Senders |-> {}]
  /\ dropped = [s \in Subs |-> {}]

\* mu.Lock() waits for every Broadcast to release its read lock.
CanLock == sending = {}

Of(c) == {s \in subscribers : KeyOf[s] = c}

\* ErrTooManySubscribers, ErrTooManyClientSubscribers.
Refused(s) ==
  \/ Cardinality(subscribers) >= maxSubscribers
  \/ KeyOf[s] \in Clients /\ byClient[KeyOf[s]] >= maxSubscribersPerClient

Subscribe(s) ==
  /\ s \notin created
  /\ CanLock
  /\ ~Refused(s)
  /\ created' = created \cup {s}
  /\ subscribers' = subscribers \cup {s}
  /\ byClient' = [c \in Clients |->
                    IF c = KeyOf[s] THEN byClient[c] + 1 ELSE byClient[c]]
  /\ UNCHANGED <<ch, chClosed, loopVars, dropped>>

\* decClientLocked: the key is removed, that is 0, at the last connection.
decClientLocked(s) ==
  byClient' = [c \in Clients |->
                 IF c = KeyOf[s]
                 THEN IF byClient[c] <= 1 THEN 0 ELSE byClient[c] - 1
                 ELSE byClient[c]]

\* A subscription that Shutdown removed already is left alone.
Unsubscribe(s) ==
  /\ s \in created
  /\ CanLock
  /\ IF s \in subscribers
     THEN /\ subscribers' = subscribers \ {s}
          /\ chClosed' = [chClosed EXCEPT ![s] = TRUE]
          /\ decClientLocked(s)
     ELSE UNCHANGED <<subscribers, chClosed, byClient>>
  /\ UNCHANGED <<ch, created, loopVars, dropped>>

Shutdown ==
  /\ CanLock
  /\ chClosed' = [s \in Subs |-> chClosed[s] \/ s \in subscribers]
  /\ subscribers' = {}
  /\ byClient' = [c \in Clients |-> 0]
  /\ UNCHANGED <<ch, created, loopVars, dropped>>

BroadcastStarts(b, m) ==
  /\ b \notin sending
  /\ sending' = sending \cup {b}
  /\ left' = [left EXCEPT ![b] = subscribers \X {m}]
  /\ UNCHANGED <<subVars, dropped>>

\* A subscriber whose filter does not match is skipped, a full channel drops.
BroadcastSends(b, s, m) ==
  /\ <<s, m>> \in left[b]
  /\ left' = [left EXCEPT ![b] = @ \ {<<s, m>>}]
  /\ \/ m \notin Wants[s] /\ UNCHANGED <<ch, dropped>>
     \/ /\ m \in Wants[s]
        /\ Len(ch[s]) < subscriptionBufferSize
        /\ ch' = [ch EXCEPT ![s] = Append(@, m)]
        /\ UNCHANGED dropped
     \/ /\ m \in Wants[s]
        /\ Len(ch[s]) >= subscriptionBufferSize
        /\ dropped' = [dropped EXCEPT ![s] = @ \cup {m}]
        /\ UNCHANGED ch
  /\ UNCHANGED <<subscribers, byClient, chClosed, created, sending>>

BroadcastEnds(b) ==
  /\ b \in sending
  /\ left[b] = {}
  /\ sending' = sending \ {b}
  /\ UNCHANGED <<subVars, left, dropped>>

\* The client's handler takes the next message from its channel.
Receive(s) ==
  /\ ch[s] # <<>>
  /\ ch' = [ch EXCEPT ![s] = Tail(@)]
  /\ UNCHANGED <<subscribers, byClient, chClosed, created, loopVars, dropped>>

Broadcast(b) ==
  \/ \E m \in Msgs : BroadcastStarts(b, m)
  \/ \E s \in Subs : \E m \in Msgs : BroadcastSends(b, s, m)
  \/ BroadcastEnds(b)

Next ==
  \/ \E s \in Subs : Subscribe(s) \/ Unsubscribe(s) \/ Receive(s)
  \/ \E b \in Senders : Broadcast(b)
  \/ Shutdown

Spec == Init /\ [][Next]_vars

-----------------------------------------------------------------------------
(* Properties *)

\* The broker's state keeps its types; no channel exceeds its buffer.
TypeOK ==
  /\ subscribers \subseteq created /\ created \subseteq Subs
  /\ byClient \in [Clients -> Nat]
  /\ ch \in [Subs -> Seq(Msgs)]
  /\ \A s \in Subs : Len(ch[s]) <= subscriptionBufferSize
  /\ chClosed \in [Subs -> BOOLEAN]
  /\ sending \subseteq Senders
  /\ left \in [Senders -> SUBSET (Subs \X Msgs)]
  /\ dropped \in [Subs -> SUBSET Msgs]

\* A broadcast never sends on a closed channel, which would panic the server,
\* and no channel is closed twice: exactly the registered subscriptions have
\* an open channel, and a broadcast under way visits only those.
SendsAreSafe ==
  /\ \A s \in created : s \in subscribers <=> ~chClosed[s]
  /\ \A b \in Senders : left[b] \subseteq subscribers \X Msgs
  /\ \A b \in Senders \ sending : left[b] = {}

\* The per-client counts never drift from the connections, whatever the order
\* of Unsubscribe and Shutdown, so the cap neither locks a client out nor
\* lets it in too often.
CountsMatchSubscribers ==
  /\ Cardinality(subscribers) <= maxSubscribers
  /\ \A c \in Clients :
       /\ byClient[c] = Cardinality(Of(c))
       /\ byClient[c] <= maxSubscribersPerClient
=============================================================================
