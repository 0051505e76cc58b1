------------------------------- MODULE Listener -------------------------------
(***************************************************************************)
(* The LISTEN connection (api/internal/postgres/listener.go): committed    *)
(* rows are notified over a connection that may be lost; after a reconnect *)
(* the rows since the last one seen are queried and pushed as well.        *)
(*                                                                         *)
(* One goroutine owns the connection and the notification channel; the     *)
(* bridge workers take from the channel.                                   *)
(***************************************************************************)
EXTENDS Integers, Sequences, FiniteSets

CONSTANTS
  channels,                 \* the NOTIFY channels, in the order they are filled
  MaxId,                    \* bound: ids per channel
  MaxCommits,               \* bound: rows committed
  MaxLosses,                \* bound: connections lost
  bufferSize,
  gapFillLimit

Chans == {channels[k] : k \in 1..Len(channels)}
Ids == 1..MaxId

\* serve lists the channels once each.
ASSUME ListenerAssumption ==
  /\ channels \in Seq(Chans) /\ channels # <<>>
  /\ \A k, l \in 1..Len(channels) : channels[k] = channels[l] => k = l
  /\ MaxId \in Nat /\ MaxCommits \in Nat /\ MaxLosses \in Nat
  /\ bufferSize \in Nat \ {0}
  /\ gapFillLimit \in Nat \ {0}

VARIABLES
  rows,                     \* committed rows of each channel's table
  up,                       \* the LISTEN connection is established
  wire,                     \* notifications sent on it and not yet read
  pc,                       \* recv, down, fill, gap or closed
  held,                     \* the notification recv is sending, if any
  lastSeenID,
  at,                       \* the channel fillGap is at
  gap,                      \* rows of its query still to push
  ch,
  cancelled,                \* the listen context is cancelled
  \* Observation only.
  losses,
  late,                     \* rows that committed below an id committed before
  seen,                     \* how often the workers took each row
  noBaseline,               \* channels fillGap skipped: nothing seen yet
  gaveUp                    \* channels whose gap fill failed or was truncated

tables   == <<rows, late>>
connVars == <<up, wire>>
fillVars == <<at, gap>>
obsVars  == <<losses, noBaseline, gaveUp>>
vars == <<tables, connVars, pc, held, lastSeenID, fillVars, ch, cancelled, seen,
          obsVars>>

Init ==
  /\ rows = [c \in Chans |-> {}]
  /\ up = TRUE
  /\ wire = <<>>
  /\ pc = "recv"
  /\ held = <<>>
  /\ lastSeenID = [c \in Chans |-> 0]
  /\ at = 1
  /\ gap = {}
  /\ ch = <<>>
  /\ cancelled = FALSE
  /\ losses = 0
  /\ late = [c \in Chans |-> {}]
  /\ seen = [c \in Chans |-> [i \in Ids |-> 0]]
  /\ noBaseline = {}
  /\ gaveUp = {}

-----------------------------------------------------------------------------
(* The database and the network *)

\* Ids are drawn from a sequence before the commit, so a smaller one may commit
\* later.  The trigger's NOTIFY is delivered at commit, to whoever listens.
Commit(c, i) ==
  /\ i \notin rows[c]
  /\ Cardinality({n \in Chans \X Ids : n[2] \in rows[n[1]]}) < MaxCommits
  /\ late' = IF \E j \in rows[c] : j > i THEN [late EXCEPT ![c] = @ \cup {i}]
                                        ELSE late
  /\ rows' = [rows EXCEPT ![c] = @ \cup {i}]
  /\ wire' = IF up THEN Append(wire, <<c, i>>) ELSE wire
  /\ UNCHANGED <<up, pc, held, lastSeenID, fillVars, ch, cancelled, seen, obsVars>>

ConnLost ==
  /\ up
  /\ losses < MaxLosses
  /\ up' = FALSE
  /\ wire' = <<>>
  /\ losses' = losses + 1
  /\ UNCHANGED <<tables, pc, held, lastSeenID, fillVars, ch, cancelled, seen,
                 noBaseline, gaveUp>>

-----------------------------------------------------------------------------
(* recv *)

\* WaitForNotification returns one.
RecvTakes ==
  /\ pc = "recv" /\ held = <<>>
  /\ wire # <<>>
  /\ held' = <<Head(wire)>>
  /\ wire' = Tail(wire)
  /\ UNCHANGED <<tables, up, pc, lastSeenID, fillVars, ch, cancelled, seen, obsVars>>

\* ch <- Notification, then storeLastSeenID.
Push(c, i) ==
  /\ Len(ch) < bufferSize
  /\ ch' = Append(ch, <<c, i>>)
  /\ lastSeenID' = [lastSeenID EXCEPT ![c] = i]

RecvSends(c, i) ==
  /\ held = <<<<c, i>>>>
  /\ Push(c, i)
  /\ held' = <<>>
  /\ UNCHANGED <<tables, connVars, pc, fillVars, cancelled, seen, obsVars>>

\* WaitForNotification fails, or the context is cancelled, also while sending:
\* the connection is closed.
RecvFails ==
  /\ pc = "recv"
  /\ (held = <<>> /\ ~up) \/ cancelled
  /\ pc' = IF cancelled THEN "closed" ELSE "down"
  /\ up' = FALSE
  /\ wire' = <<>>
  /\ held' = <<>>
  /\ UNCHANGED <<tables, lastSeenID, fillVars, ch, cancelled, seen, obsVars>>

-----------------------------------------------------------------------------
(* reconnect and fillGap *)

\* Mutant: no gap fill after a reconnect.
ReconnectOnly ==
  /\ pc = "down"
  /\ pc' = "recv"
  /\ up' = TRUE
  /\ UNCHANGED <<tables, wire, held, lastSeenID, fillVars, ch, cancelled, seen,
                 obsVars>>

\* LISTEN on every channel; a failed attempt changes nothing and is retried.
Reconnect ==
  /\ pc = "down"
  /\ \/ cancelled /\ pc' = "closed" /\ UNCHANGED <<up, at>>
     \/ pc' = "fill" /\ up' = TRUE /\ at' = 1
  /\ UNCHANGED <<tables, wire, held, lastSeenID, gap, ch, cancelled, seen, obsVars>>

\* On to the next channel, after the last back to recv.
NextChannel ==
  /\ at' = at + 1
  /\ gap' = {}
  /\ pc' = IF at = Len(channels) THEN "recv" ELSE "fill"

FillSkips ==
  /\ pc = "fill"
  /\ lastSeenID[channels[at]] = 0
  /\ noBaseline' = noBaseline \cup {channels[at]}
  /\ NextChannel
  /\ UNCHANGED <<tables, connVars, held, lastSeenID, ch, cancelled, losses, seen,
                 gaveUp>>

\* The gapFillLimit smallest ids above id.
Page(c, id) ==
  {i \in rows[c] :
     i > id /\ Cardinality({j \in rows[c] : id < j /\ j < i}) < gapFillLimit}

\* Mutant: one row too far.
FillQueryOffByOne ==
  LET c == channels[at]
  IN  /\ pc = "fill"
      /\ lastSeenID[c] # 0
      /\ gap' = Page(c, lastSeenID[c] + 1)
      /\ pc' = "gap"
      /\ UNCHANGED <<tables, connVars, held, lastSeenID, at, ch, cancelled, seen,
                     obsVars>>

\* A full page means that rows beyond it are not recovered.
FillQuery ==
  LET c == channels[at]
  IN  /\ pc = "fill"
      /\ lastSeenID[c] # 0
      /\ gap' = Page(c, lastSeenID[c])
      /\ pc' = "gap"
      /\ gaveUp' = IF Cardinality(gap') = gapFillLimit THEN gaveUp \cup {c}
                                                       ELSE gaveUp
      /\ UNCHANGED <<tables, connVars, held, lastSeenID, at, ch, cancelled, seen,
                     losses, noBaseline>>

\* Query, scan or row error, or the context is cancelled: the rest is left.
FillFails ==
  /\ pc \in {"fill", "gap"}
  /\ lastSeenID[channels[at]] # 0
  /\ gaveUp' = gaveUp \cup {channels[at]}
  /\ NextChannel
  /\ UNCHANGED <<tables, connVars, held, lastSeenID, ch, cancelled, losses, seen,
                 noBaseline>>

FillPush(c, i) ==
  /\ pc = "gap" /\ c = channels[at]
  /\ i \in gap /\ \A j \in gap : i <= j
  /\ Push(c, i)
  /\ gap' = gap \ {i}
  /\ UNCHANGED <<tables, connVars, pc, held, at, cancelled, seen, obsVars>>

FillEnds ==
  /\ pc = "gap" /\ gap = {}
  /\ NextChannel
  /\ UNCHANGED <<tables, connVars, held, lastSeenID, ch, cancelled, seen, obsVars>>

-----------------------------------------------------------------------------
\* A bridge worker ranges over the channel, also after it is closed.
WorkerTakes(c, i) ==
  /\ ch # <<>> /\ Head(ch) = <<c, i>>
  /\ ch' = Tail(ch)
  /\ seen' = [seen EXCEPT ![c][i] = @ + 1]
  /\ UNCHANGED <<tables, connVars, pc, held, lastSeenID, fillVars, cancelled, obsVars>>

\* Shutdown, or serve's own context.
Shutdown ==
  /\ ~cancelled
  /\ cancelled' = TRUE
  /\ UNCHANGED <<tables, connVars, pc, held, lastSeenID, fillVars, ch, seen, obsVars>>

Listen ==
  \/ RecvTakes \/ RecvFails \/ Reconnect
  \/ FillSkips \/ FillQuery \/ FillFails \/ FillEnds
  \/ \E c \in Chans, i \in Ids : RecvSends(c, i) \/ FillPush(c, i)

Next ==
  \/ \E c \in Chans, i \in Ids : Commit(c, i) \/ WorkerTakes(c, i)
  \/ ConnLost
  \/ Listen
  \/ Shutdown

Spec == Init /\ [][Next]_vars

\* The goroutine keeps running, reconnects succeed in the end, and queries need
\* not fail, except that a cancelled context ends them.
ListenFairness ==
  /\ WF_vars(RecvTakes) /\ WF_vars(RecvFails) /\ WF_vars(Reconnect)
  /\ WF_vars(FillSkips) /\ WF_vars(FillQuery) /\ WF_vars(FillEnds)
  /\ WF_vars(cancelled /\ FillFails)
  /\ WF_vars(\E c \in Chans, i \in Ids : RecvSends(c, i) \/ FillPush(c, i))

\* Dispatch bounds its query by a timeout, so a worker comes back for more.
WorkerFairness == WF_vars(\E c \in Chans, i \in Ids : WorkerTakes(c, i))

FairSpec == Spec /\ ListenFairness

-----------------------------------------------------------------------------
(* Properties *)

\* The state keeps its types, and the channel its capacity.
TypeOK ==
  /\ rows \in [Chans -> SUBSET Ids]
  /\ up \in BOOLEAN /\ cancelled \in BOOLEAN
  /\ wire \in Seq(Chans \X Ids)
  /\ pc \in {"recv", "down", "fill", "gap", "closed"}
  /\ held \in {<<>>} \cup {<<n>> : n \in Chans \X Ids}
  /\ lastSeenID \in [Chans -> 0..MaxId]
  /\ at \in 1..Len(channels) + 1
  /\ gap \subseteq Ids
  /\ ch \in Seq(Chans \X Ids) /\ Len(ch) <= bufferSize
  /\ late \in [Chans -> SUBSET Ids]
  /\ seen \in [Chans -> [Ids -> Nat]]

\* The listener has caught up with its connection.
Quiet == pc = "recv" /\ up /\ wire = <<>> /\ held = <<>> /\ ch = <<>>

\* Why a row may never be handed out: its channel's query failed, was truncated,
\* or had no baseline (no row seen yet); or a connection was lost and the row,
\* committed below an id that had committed before, is not above lastSeenID.
Excused(c, i) ==
  \/ c \in gaveUp \cup noBaseline
  \/ losses > 0 /\ i \in late[c]

\* "... pushes them into the notification channel so the brokers don't miss
\* any": in whatever order rows commit, however often the connection is lost, at
\* whatever point of recv or of an earlier gap fill, no other row is missed.
NothingMissed ==
  Quiet => \A c \in Chans : \A i \in rows[c] : seen[c][i] > 0 \/ Excused(c, i)

\* A row is handed out again only because of a reconnect.
RepeatsNeedReconnect ==
  \A c \in Chans, i \in Ids : seen[c][i] <= 1 + losses

\* Each row is handed out, and once per connection at most.
EachRowHandedOut == NothingMissed /\ RepeatsNeedReconnect

\* Every committed row reaches a worker that comes back for more, over any
\* outage, unless it is excused.
RowsArrive ==
  WorkerFairness =>
    \A c \in Chans, i \in Ids :
      i \in rows[c] ~> seen[c][i] > 0 \/ Excused(c, i) \/ cancelled

\* Once the context is cancelled, the goroutine that Shutdown waits for exits,
\* also when the channel is full and nobody takes from it any more.
ShutdownEnds == cancelled ~> pc = "closed"

\* The listener gets on: rows arrive, and Shutdown ends.
ListenerProgress == RowsArrive /\ ShutdownEnds
=============================================================================
