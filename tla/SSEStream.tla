------------------------------ MODULE SSEStream -------------------------------
(***************************************************************************)
(* SSE streaming of one feed: events are committed to the database and     *)
(* broadcast, clients connect, are backfilled from the database and then   *)
(* follow the broker (api/internal/handler/sse_stream.go), reconnect with  *)
(* the id of the last frame they got, and the server shuts down            *)
(* (api/cmd/taillight/serve.go).                                           *)
(*                                                                         *)
(* The broker is an instance of Broker over the same variables: a          *)
(* subscription is one connection, a message is the id of an event, and    *)
(* each broadcast runs in a goroutine of its own (a bridge worker or an    *)
(* ingest request).  A row the listener hands out again after a reconnect  *)
(* is broadcast again.                                                     *)
(***************************************************************************)
EXTENDS BrokerLimits, Functions

CONSTANTS
  MaxId,                    \* bound: events
  MaxRepeats,               \* bound: broadcasts of an event handed out again
  sseBackfillLimit,
  Wants,                    \* the events that match each connection's filter
  Orders                    \* what may happen in the order of the ids: commits,
                            \* stamps (received_at) and broadcasts

Ids == 1..MaxId

\* Event i is first broadcast by sender i, the n-th repeat by MaxId + n.
Senders == 1..MaxId + MaxRepeats

ASSUME StreamAssumption ==
  /\ KeyOf \in [Subs -> Clients]
  /\ MaxId \in Nat /\ MaxRepeats \in Nat
  /\ sseBackfillLimit \in Nat \ {0}
  /\ Wants \in [Subs -> SUBSET Ids]
  /\ Orders \subseteq SUBSET {"commits", "stamps", "broadcasts"}

VARIABLES
  ordered,                  \* the member of Orders this behaviour is about
  subscribers, byClient, ch, chClosed, created, sending, left, dropped,
  stamp,                    \* received_at: when an event's transaction began
  stage,                    \* of each event: none, committed, broadcast, done
  repeats,                  \* broadcasts of events that were broadcast before
  pc,                       \* of each connection's handler
  open,                     \* connections their client still listens to
  from,                     \* the Last-Event-ID it was opened with
  lastBackfilledID,
  lastEventID,              \* what each client would resume from
  server,                   \* running, brokers shut, draining
  \* Observation only.
  repeated,                 \* the events of those broadcasts
  written,                  \* the frames of each connection the client gets
  backfilled,               \* how many rows its backfill query returned
  failed                    \* the backfill query failed

brokerVars == <<subscribers, byClient, ch, chClosed, created, sending, left,
                dropped>>
dbVars     == <<ordered, stamp, stage, repeats, repeated>>
connVars   == <<pc, from, lastBackfilledID>>
clientVars == <<open, lastEventID>>
frames     == <<written, backfilled, failed>>
vars == <<brokerVars, dbVars, connVars, clientVars, server, frames>>

B == INSTANCE Broker WITH Msgs <- Ids

Stamps == IF "stamps" \in ordered
          THEN {[i \in Ids |-> i]}
          ELSE {f \in [Ids -> Ids] : \A i, j \in Ids : f[i] = f[j] => i = j}

Init ==
  /\ B!Init
  /\ ordered \in Orders
  /\ stamp \in Stamps
  /\ stage = [i \in Ids |-> "none"]
  /\ repeats = 0
  /\ repeated = {}
  /\ pc = [s \in Subs |-> "new"]
  /\ open = {}
  /\ from = [s \in Subs |-> 0]
  /\ lastBackfilledID = [s \in Subs |-> 0]
  /\ lastEventID = [c \in Clients |-> 0]
  /\ server = "running"
  /\ written = [s \in Subs |-> <<>>]
  /\ backfilled = [s \in Subs |-> 0]
  /\ failed = [s \in Subs |-> FALSE]

-----------------------------------------------------------------------------
(* Events *)

Stored == {i \in Ids : stage[i] # "none"}

\* Ids are drawn from a sequence; a transaction with a smaller id may commit
\* later, and some never do.
Commit(i) ==
  /\ stage[i] = "none"
  /\ "commits" \in ordered => \A j \in Ids : j < i => stage[j] # "none"
  /\ stage' = [stage EXCEPT ![i] = "committed"]
  /\ UNCHANGED <<brokerVars, ordered, stamp, repeats, repeated, connVars, clientVars,
                 server, frames>>

\* A worker has fetched the row, or the ingest request inserted it, and calls
\* Broadcast.  An event whose fetch fails stays committed.
BroadcastStarts(i) ==
  /\ stage[i] = "committed"
  /\ "broadcasts" \in ordered => \A j \in Ids : j < i => stage[j] = "done"
  /\ B!BroadcastStarts(i, i)
  /\ stage' = [stage EXCEPT ![i] = "broadcast"]
  /\ UNCHANGED <<ordered, stamp, repeats, repeated, connVars, clientVars, server, frames>>

\* LISTEN precedes the gap fill, so that after a reconnect a row may be notified
\* and found; another worker may take it while the first still broadcasts.
BroadcastAgain(i) ==
  /\ stage[i] \in {"broadcast", "done"}
  /\ repeats < MaxRepeats
  /\ repeats' = repeats + 1
  /\ repeated' = repeated \cup {i}
  /\ B!BroadcastStarts(MaxId + repeats', i)
  /\ UNCHANGED <<ordered, stamp, stage, connVars, clientVars, server, frames>>

BroadcastSends(b, i, s) ==
  /\ B!BroadcastSends(b, s, i)
  /\ UNCHANGED <<dbVars, connVars, clientVars, server, frames>>

BroadcastEnds(b) ==
  /\ B!BroadcastEnds(b)
  /\ stage' = IF b \in Ids THEN [stage EXCEPT ![b] = "done"] ELSE stage
  /\ UNCHANGED <<ordered, stamp, repeats, repeated, connVars, clientVars, server, frames>>

-----------------------------------------------------------------------------
(* Queries *)

\* ORDER BY: the rows S by their rank, of which no two are equal.
Sorted(S, rank) ==
  {q \in UNION {[1..n -> S] : n \in 0..MaxId} :
     /\ Range(q) = S
     /\ \A j, k \in DOMAIN q : j < k => rank[q[j]] < rank[q[k]]}

\* WHERE: the rows that match the filter of s.  The broker's copy of the filter
\* selects the same; whether it does is what Filters asks.
Matching(s) == Stored \cap Wants[s]

\* since: id > $1 ORDER BY id ASC LIMIT.
since(s, id) ==
  {SubSeq(q, 1, IF Len(q) < sseBackfillLimit THEN Len(q) ELSE sseBackfillLimit) :
     q \in Sorted({i \in Matching(s) : i > id}, [i \in Ids |-> i])}

\* recent: ORDER BY received_at DESC LIMIT, emitted oldest first.
recent(s) ==
  {SubSeq(q, IF Len(q) > sseBackfillLimit THEN Len(q) - sseBackfillLimit + 1 ELSE 1,
          Len(q)) : q \in Sorted(Matching(s), stamp)}

-----------------------------------------------------------------------------
(* A connection *)

\* A client opens one connection at a time; the handler of an earlier one may
\* not have noticed yet that its client has left.
Opens(s) ==
  /\ pc[s] = "new"
  /\ server # "draining"
  /\ \A t \in open : KeyOf[t] # KeyOf[s]
  /\ open' = open \cup {s}
  /\ pc' = [pc EXCEPT ![s] = "backfill"]
  /\ from' = [from EXCEPT ![s] = lastEventID[KeyOf[s]]]
  /\ UNCHANGED <<dbVars, lastBackfilledID, lastEventID, server, frames>>

\* Mutant: the handler subscribes after the backfill query.
ConnectLate(s) ==
  \/ Opens(s) /\ UNCHANGED brokerVars
  \/ /\ pc[s] = "live"
     /\ B!Subscribe(s)
     /\ UNCHANGED <<dbVars, connVars, clientVars, server, frames>>

\* Subscribe comes before backfill; a refused client retries.
Connect(s) == Opens(s) /\ B!Subscribe(s)

\* Frames reach a client that still listens.
Write(s, es) ==
  written' = IF s \in open THEN [written EXCEPT ![s] = @ \o es] ELSE written

\* The query answers.  A write may fail after n frames: the handler then
\* returns at its next write.
BackfillOf(s, events, high) ==
  /\ pc[s] = "backfill"
  /\ \E n \in 0..Len(events) :
       /\ Write(s, SubSeq(events, 1, n))
       /\ lastBackfilledID' = [lastBackfilledID EXCEPT ![s] =
                                 IF n > 0 /\ n = Len(events) THEN high
                                                            ELSE from[s]]
       /\ pc' = [pc EXCEPT ![s] = IF n < Len(events) THEN "broken" ELSE "live"]
  /\ backfilled' = [backfilled EXCEPT ![s] = Len(events)]
  /\ UNCHANGED <<brokerVars, dbVars, from, clientVars, server, failed>>

Answers(s) == IF from[s] > 0 THEN since(s, from[s]) ELSE recent(s)

\* Mutant: the id returned is the old one.
BackfillForgets(s) == \E events \in Answers(s) : BackfillOf(s, events, from[s])

\* The id of the last row written is returned as the highest one.
Backfill(s) ==
  \E events \in Answers(s) :
    BackfillOf(s, events, IF events = <<>> THEN 0 ELSE events[Len(events)])

\* The query fails: the live loop starts without a backfill.
BackfillFails(s) ==
  /\ pc[s] = "backfill"
  /\ pc' = [pc EXCEPT ![s] = "live"]
  /\ lastBackfilledID' = [lastBackfilledID EXCEPT ![s] = from[s]]
  /\ failed' = [failed EXCEPT ![s] = TRUE]
  /\ UNCHANGED <<brokerVars, dbVars, from, clientVars, server, written,
                 backfilled>>

\* Skip what backfill has sent, write the rest.
Live(s) ==
  /\ pc[s] = "live"
  /\ B!Receive(s)
  /\ IF Head(ch[s]) <= lastBackfilledID[s]
     THEN UNCHANGED written
     ELSE Write(s, <<Head(ch[s])>>)
  /\ UNCHANGED <<dbVars, connVars, clientVars, server, backfilled, failed>>

\* The deferred Unsubscribe.
Return(s) ==
  /\ B!Unsubscribe(s)
  /\ pc' = [pc EXCEPT ![s] = "gone"]
  /\ UNCHANGED <<dbVars, from, lastBackfilledID, clientVars, server, frames>>

ChannelClosed(s) == pc[s] = "live" /\ chClosed[s] /\ ch[s] = <<>> /\ Return(s)

\* The request's context is done, or a write or heartbeat fails.
WriteFails(s) == pc[s] = "broken" /\ Return(s)
Disconnected(s) == pc[s] = "live" /\ Return(s)

\* The client stops listening when it has got n of the frames, and will resume
\* from the last of them.
ClientLeaves(s) ==
  /\ s \in open
  /\ open' = open \ {s}
  /\ \E n \in 0..Len(written[s]) :
       /\ written' = [written EXCEPT ![s] = SubSeq(@, 1, n)]
       /\ lastEventID' = IF n = 0 THEN lastEventID
                         ELSE [lastEventID EXCEPT ![KeyOf[s]] = written[s][n]]
  /\ UNCHANGED <<brokerVars, dbVars, connVars, server, backfilled, failed>>

-----------------------------------------------------------------------------
(* Server shutdown *)

\* Mutant: the broker's lock is not taken.
ShutBrokersUnlocked ==
  /\ server = "running"
  /\ chClosed' = [s \in Subs |-> chClosed[s] \/ s \in subscribers]
  /\ subscribers' = {}
  /\ byClient' = [c \in Clients |-> 0]
  /\ server' = "brokers shut"
  /\ UNCHANGED <<ch, created, sending, left, dropped, dbVars, connVars, clientVars,
                 frames>>

ShutBrokers ==
  /\ server = "running"
  /\ B!Shutdown
  /\ server' = "brokers shut"
  /\ UNCHANGED <<dbVars, connVars, clientVars, frames>>

\* srv.Shutdown: no new connection is accepted from here on.
StopAccepting ==
  /\ server = "brokers shut"
  /\ server' = "draining"
  /\ UNCHANGED <<brokerVars, dbVars, connVars, clientVars, frames>>

-----------------------------------------------------------------------------
Handler(s) ==
  \/ Backfill(s) \/ BackfillFails(s) \/ Live(s)
  \/ ChannelClosed(s) \/ WriteFails(s) \/ Disconnected(s)

Next ==
  \/ \E i \in Ids : Commit(i) \/ BroadcastStarts(i) \/ BroadcastAgain(i)
  \/ \E b \in Senders : BroadcastEnds(b)
  \/ \E b \in Senders, i \in Ids, s \in Subs : BroadcastSends(b, i, s)
  \/ \E s \in Subs : Connect(s) \/ Handler(s) \/ ClientLeaves(s)
  \/ ShutBrokers
  \/ StopAccepting

Spec == Init /\ [][Next]_vars

-----------------------------------------------------------------------------
(* Properties *)

\* In whatever order handlers return, clients leave and the server shuts down, a
\* broadcast under way has only open channels left to visit, a channel is closed
\* once ("Safe to call after Shutdown"), and the counts that cap a client's
\* connections match them.
BrokerIntact == B!SendsAreSafe /\ B!CountsMatchSubscribers

\* No event is written twice on a connection, if received_at grows with the id:
\* what the backfill has sent is recognised when its broadcast comes, as often as
\* it comes.  Only an event above the backfill that was broadcast again may be.
NoDuplicates ==
  "stamps" \in ordered =>
    \A s \in Subs : \A j, k \in DOMAIN written[s] :
      written[s][j] = written[s][k] =>
        j = k \/ (written[s][j] \in repeated /\ written[s][j] > lastBackfilledID[s])

\* Nothing broadcast is still on its way to the connection s.
Quiet(s) ==
  /\ s \in open /\ s \in subscribers /\ pc[s] = "live"
  /\ ch[s] = <<>>
  /\ \A i \in Ids : stage[i] # "broadcast"

\* The query of s answered, and its limit cut nothing off.
Filled(s) == ~failed[s] /\ backfilled[s] < sseBackfillLimit

\* What s was sent, and what it lost by being slow.
Covered(s) == Range(written[s]) \cup dropped[s]

\* An event of its filter that is stored and broadcast is in the backfill or
\* follows it:
\* "Subscribe happens BEFORE backfill so events arriving during the backfill
\* query are buffered on the subscription rather than lost."
NothingLostInBetween ==
  \A s \in Subs :
    Quiet(s) /\ Filled(s) =>
      \A i \in Wants[s] : stage[i] = "done" /\ i > from[s] => i \in Covered(s)

\* That holds where transactions commit in the order of their ids, for any order
\* of the stamps and of the broadcasts.
NothingLostIfCommitsInOrder == "commits" \in ordered => NothingLostInBetween

\* A client that reconnects resumes from where it left off: over its
\* connections it misses nothing that their filters match, if all is done in the
\* order of the ids.
ResumesWhereItLeft ==
  ordered = {"commits", "stamps", "broadcasts"} =>
    \A t \in Subs :
      LET mine == {s \in Subs : KeyOf[s] = KeyOf[t]}
      IN  Quiet(t) /\ (\A s \in mine : Filled(s)) =>
            \A i \in Ids :
              stage[i] = "done" /\ (\A s \in mine : i \in Wants[s]) =>
                i \in UNION {Covered(s) : s \in mine}

\* Nothing is lost on one connection, nor over the connections of a client.
NothingLost == NothingLostIfCommitsInOrder /\ ResumesWhereItLeft

=============================================================================
