---------------------------- MODULE SSEStreamProofs ---------------------------
(***************************************************************************)
(* Proofs about the SSE broker and about the streams that use it.          *)
(***************************************************************************)
EXTENDS SSEStream, TLAPS

-----------------------------------------------------------------------------
(* The broker: any number of subscriptions, clients and broadcasts *)

\* Appending within the buffer keeps a channel's type.
LEMMA AppendType ==
  ASSUME NEW q \in Seq(Ids), NEW m \in Ids
  PROVE  Append(q, m) \in Seq(Ids) /\ Len(Append(q, m)) = Len(q) + 1
  OBVIOUS

\* Receiving shortens a channel.
LEMMA TailType ==
  ASSUME NEW q \in Seq(Ids), q # <<>>
  PROVE  Tail(q) \in Seq(Ids) /\ Len(Tail(q)) = Len(q) - 1
  OBVIOUS

\* A broadcast offers a message to a subscriber: its filter skips it, or the
\* channel takes or drops it.
LEMMA SendCases ==
  ASSUME NEW b, NEW s \in Subs, NEW m \in Ids, B!BroadcastSends(b, s, m)
  PROVE  /\ <<s, m>> \in left[b]
         /\ left' = [left EXCEPT ![b] = @ \ {<<s, m>>}]
         /\ \/ m \notin Wants[s] /\ UNCHANGED <<ch, dropped>>
            \/ /\ Len(ch[s]) < subscriptionBufferSize
               /\ ch' = [ch EXCEPT ![s] = Append(@, m)]
               /\ dropped' = dropped
            \/ /\ Len(ch[s]) >= subscriptionBufferSize
               /\ dropped' = [dropped EXCEPT ![s] = @ \cup {m}]
               /\ ch' = ch
         /\ UNCHANGED <<subscribers, byClient, chClosed, created, sending>>
  BY Zenon DEF B!BroadcastSends

\* A channel is made by Subscribe, open.
NewIsOpen == \A s \in Subs \ created : ~chClosed[s]

SafeInv == B!TypeOK /\ B!SendsAreSafe /\ NewIsOpen

\* No broadcast sends on a closed channel and no channel is closed twice,
\* however Subscribe, Unsubscribe, Shutdown and the broadcasts interleave.
THEOREM SafetyCorrect == B!Spec => []SafeInv
<1>1. B!Init => SafeInv
  BY BrokerAssumption DEF B!Init, SafeInv, B!TypeOK, B!SendsAreSafe, NewIsOpen
<1>2. SafeInv /\ [B!Next]_(B!vars) => SafeInv'
  <2> SUFFICES ASSUME SafeInv, [B!Next]_(B!vars) PROVE SafeInv'
    OBVIOUS
  <2> USE BrokerAssumption DEF SafeInv, B!TypeOK, B!SendsAreSafe, NewIsOpen, B!subVars,
         B!loopVars
  <2>1. ASSUME NEW s \in Subs, B!Subscribe(s) PROVE SafeInv'
    <3>1. byClient' \in [Clients -> Nat]
      BY <2>1 DEF B!Subscribe
    <3>2. B!TypeOK'
      BY <2>1, <3>1, Zenon DEF B!Subscribe
    <3>3. \A b \in Senders : left[b] = {}
      BY <2>1, Zenon DEF B!Subscribe, B!CanLock
    <3>4. ~chClosed[s]
      BY <2>1, Zenon DEF B!Subscribe
    <3>5. B!SendsAreSafe'
      BY <2>1, <3>3, <3>4, Zenon DEF B!Subscribe
    <3> QED
      BY <2>1, <3>2, <3>5, Zenon DEF B!Subscribe
  <2>2. ASSUME NEW s \in Subs, B!Unsubscribe(s) PROVE SafeInv'
    <3>1. byClient' \in [Clients -> Nat]
      <4>1. byClient \in [Clients -> Nat]
        OBVIOUS
      <4>2. CASE B!decClientLocked(s)
        <5>1. \A c \in Clients : byClient[c] \in Nat
          BY <4>1, Zenon
        <5>2. \A c \in Clients :
                (IF c = KeyOf[s]
                 THEN IF byClient[c] <= 1 THEN 0 ELSE byClient[c] - 1
                 ELSE byClient[c]) \in Nat
          BY <5>1
        <5> QED
          BY <4>2, <5>2, Zenon DEF B!decClientLocked
      <4> QED
        BY <2>2, <4>1, <4>2, Zenon DEF B!Unsubscribe
    <3>2. B!TypeOK'
      BY <2>2, <3>1, Zenon DEF B!Unsubscribe
    <3>3. \A b \in Senders : left[b] = {}
      BY <2>2, Zenon DEF B!Unsubscribe, B!CanLock
    <3>4. B!SendsAreSafe'
      BY <2>2, <3>3, Zenon DEF B!Unsubscribe
    <3>5. NewIsOpen'
      BY <2>2, Zenon DEF B!Unsubscribe
    <3> QED
      BY <3>2, <3>4, <3>5, Zenon
  <2>3. ASSUME NEW s \in Subs, B!Receive(s) PROVE SafeInv'
    BY <2>3, TailType DEF B!Receive
  <2>4. ASSUME NEW b \in Senders, NEW m \in Ids, B!BroadcastStarts(b, m)
        PROVE  SafeInv'
    BY <2>4, Zenon DEF B!BroadcastStarts
  <2>5. ASSUME NEW b \in Senders, NEW s \in Subs, NEW m \in Ids,
               B!BroadcastSends(b, s, m)
        PROVE  SafeInv'
    <3>0. /\ left' = [left EXCEPT ![b] = @ \ {<<s, m>>}]
          /\ \/ UNCHANGED <<ch, dropped>>
             \/ /\ Len(ch[s]) < subscriptionBufferSize
                /\ ch' = [ch EXCEPT ![s] = Append(@, m)]
                /\ dropped' = dropped
             \/ dropped' = [dropped EXCEPT ![s] = @ \cup {m}] /\ ch' = ch
          /\ UNCHANGED <<subscribers, byClient, chClosed, created, sending>>
      BY <2>5, SendCases, Zenon
    <3>1. /\ ch' \in [Subs -> Seq(Ids)]
          /\ \A x \in Subs : Len(ch'[x]) <= subscriptionBufferSize
      <4>1. CASE ch' = [ch EXCEPT ![s] = Append(ch[s], m)]
                   /\ Len(ch[s]) < subscriptionBufferSize
        <5>1. /\ Append(ch[s], m) \in Seq(Ids)
              /\ Len(Append(ch[s], m)) <= subscriptionBufferSize
          BY <4>1, AppendType
        <5> HIDE DEF B!SendsAreSafe
        <5> QED
          BY <4>1, <5>1, Zenon
      <4> QED
        BY <3>0, <4>1, Zenon
    <3>2. dropped' \in [Subs -> SUBSET Ids]
      <4>1. dropped \in [Subs -> SUBSET Ids]
        OBVIOUS
      <4> HIDE DEF SafeInv
      <4>2. CASE dropped' = [dropped EXCEPT ![s] = @ \cup {m}]
        BY <4>1, <4>2, Zenon
      <4> QED
        BY <3>0, <4>1, <4>2, Zenon
    <3>3. left' \in [Senders -> SUBSET (Subs \X Ids)]
            /\ \A x \in Senders : left'[x] \subseteq left[x]
      BY <3>0, Zenon
    <3>4. UNCHANGED <<subscribers, byClient, chClosed, created, sending>>
      BY <3>0, Zenon
    <3> QED
      BY <3>1, <3>2, <3>3, <3>4, Zenon
  <2>6. ASSUME NEW b \in Senders, B!BroadcastEnds(b) PROVE SafeInv'
    BY <2>6, Zenon DEF B!BroadcastEnds
  <2>7. CASE B!Shutdown
    BY <2>7, Zenon DEF B!Shutdown, B!CanLock
  <2>8. CASE UNCHANGED B!vars
    BY <2>8, Zenon DEF B!vars
  <2> QED
    BY <2>1, <2>2, <2>3, <2>4, <2>5, <2>6, <2>7, <2>8, Zenon DEF B!Next, B!Broadcast
<1> QED
  BY <1>1, <1>2, PTL DEF B!Spec

\* The types and the safety of sends are parts of that invariant.
THEOREM NoSendOnClosed == B!Spec => [](B!TypeOK /\ B!SendsAreSafe)
<1>1. SafeInv => B!TypeOK /\ B!SendsAreSafe
  BY Zenon DEF SafeInv
<1> QED
  BY <1>1, SafetyCorrect, PTL

-----------------------------------------------------------------------------
(* The streams use the broker *)

\* The senders of first broadcasts, and of repeats.
LEMMA SendersAre ==
  /\ Ids \subseteq Senders
  /\ \A n \in Nat : n < MaxRepeats => MaxId + (n + 1) \in Senders \ Ids
  BY StreamAssumption DEF Ids, Senders

\* A repeated broadcast has a sender of its own.
LEMMA AgainSender ==
  ASSUME repeats \in Nat, NEW i \in Ids, BroadcastAgain(i)
  PROVE  /\ MaxId + repeats' \in Senders \ Ids
         /\ B!BroadcastStarts(MaxId + repeats', i)
         /\ repeats' \in Nat
<1>1. repeats < MaxRepeats /\ repeats' = repeats + 1 /\ B!BroadcastStarts(MaxId + repeats', i)
  BY Zenon DEF BroadcastAgain
<1>2. MaxId + (repeats + 1) \in Senders \ Ids
  BY <1>1, SendersAre, Zenon
<1>3. repeats + 1 \in Nat
  OBVIOUS
<1> QED
  BY <1>1, <1>2, <1>3, Zenon

Counted == repeats \in Nat

\* Whatever clients, handlers, broadcasts and the server's shutdown do, each of
\* their steps is a step of the broker or leaves it alone.
THEOREM UsesBroker == Spec => B!Spec
<1>1. Init => B!Init /\ Counted
  BY DEF Init, Counted
<1>2. Counted /\ [Next]_vars => Counted'
  <2> SUFFICES ASSUME repeats \in Nat, [Next]_vars PROVE repeats' \in Nat
    BY Zenon DEF Counted
  <2>1. ASSUME NEW i \in Ids, BroadcastAgain(i) PROVE repeats' \in Nat
    BY <2>1, AgainSender, Zenon
  <2>2. ASSUME NEW s \in Subs, Connect(s) \/ Handler(s) \/ ClientLeaves(s)
        PROVE  repeats' = repeats
    BY <2>2, Zenon DEF Connect, Opens, Handler, Backfill, BackfillOf, BackfillFails, Live,
         ChannelClosed, WriteFails, Disconnected, Return, ClientLeaves, dbVars
  <2> QED
    BY <2>1, <2>2, Zenon DEF Next, Commit, BroadcastStarts, BroadcastEnds, BroadcastSends,
         ShutBrokers, StopAccepting, vars, dbVars
<1>3. Counted /\ [Next]_vars => [B!Next]_(B!vars)
  <2> SUFFICES ASSUME repeats \in Nat, [Next]_vars PROVE [B!Next]_(B!vars)
    BY Zenon DEF Counted
  <2>u. UNCHANGED brokerVars => UNCHANGED B!vars
    BY Zenon DEF brokerVars, B!vars, B!subVars, B!loopVars
  <2>1. ASSUME NEW i \in Ids, Commit(i) \/ BroadcastStarts(i)
        PROVE  B!Next \/ UNCHANGED brokerVars
    BY <2>1, SendersAre, Zenon DEF Commit, BroadcastStarts, B!Next, B!Broadcast
  <2>2. ASSUME NEW i \in Ids, BroadcastAgain(i) PROVE B!Next
    BY <2>2, AgainSender, Zenon DEF B!Next, B!Broadcast
  <2>3. ASSUME NEW b \in Senders, BroadcastEnds(b) PROVE B!Next
    BY <2>3, Zenon DEF BroadcastEnds, B!Next, B!Broadcast
  <2>4. ASSUME NEW b \in Senders, NEW i \in Ids, NEW s \in Subs, BroadcastSends(b, i, s)
        PROVE  B!Next
    BY <2>4, Zenon DEF BroadcastSends, B!Next, B!Broadcast
  <2>5. ASSUME NEW s \in Subs, Connect(s) \/ Live(s) \/ ClientLeaves(s)
        PROVE  B!Next \/ UNCHANGED brokerVars
    BY <2>5, Zenon DEF Connect, Live, ClientLeaves, B!Next
  <2>6. ASSUME NEW s \in Subs, Backfill(s) \/ BackfillFails(s)
        PROVE  UNCHANGED brokerVars
    BY <2>6, Zenon DEF Backfill, BackfillOf, BackfillFails
  <2>7. ASSUME NEW s \in Subs, ChannelClosed(s) \/ WriteFails(s) \/ Disconnected(s)
        PROVE  B!Next
    BY <2>7, Zenon DEF ChannelClosed, WriteFails, Disconnected, Return, B!Next
  <2>8. ShutBrokers => B!Next
    BY Zenon DEF ShutBrokers, B!Next
  <2>9. StopAccepting \/ UNCHANGED vars => UNCHANGED brokerVars
    BY Zenon DEF StopAccepting, vars
  <2> QED
    BY <2>u, <2>1, <2>2, <2>3, <2>4, <2>5, <2>6, <2>7, <2>8, <2>9, Zenon DEF Next, Handler
<1> QED
  BY <1>1, <1>2, <1>3, PTL DEF Spec, B!Spec

\* What is proved of the broker holds where it is used.
THEOREM BrokerIsSafe == Spec => []SafeInv
  BY UsesBroker, SafetyCorrect, PTL

-----------------------------------------------------------------------------
(* The streams: what the proofs below go by *)

\* The state keeps its types, and a connection has got nothing before its
\* backfill.
StreamOK ==
  /\ ordered \in Orders
  /\ stamp \in [Ids -> Ids]
  /\ "stamps" \in ordered => stamp = [i \in Ids |-> i]
  /\ stage \in [Ids -> {"none", "committed", "broadcast", "done"}]
  /\ repeats \in Nat /\ repeated \subseteq Ids
  /\ pc \in [Subs -> {"new", "backfill", "live", "broken", "gone"}]
  /\ open \subseteq Subs
  /\ from \in [Subs -> 0..MaxId]
  /\ lastBackfilledID \in [Subs -> 0..MaxId]
  /\ lastEventID \in [Clients -> 0..MaxId]
  /\ written \in [Subs -> Seq(Ids)]
  /\ backfilled \in [Subs -> Nat]
  /\ failed \in [Subs -> BOOLEAN]
  /\ \A s \in Subs :
       /\ pc[s] = "new" => s \notin open
       /\ pc[s] \in {"new", "backfill"} =>
            written[s] = <<>> /\ backfilled[s] = 0 /\ ~failed[s]

\* The broadcast of an event has begun.
Begun(i) == stage[i] \in {"broadcast", "done"}

\* q holds nothing twice, but for members of R.
Once(q, R) == \A j, k \in DOMAIN q : q[j] = q[k] => j = k \/ q[j] \in R

\* A first broadcast is of one event, and what a channel holds has been sent to
\* it, once unless it was broadcast again.
SentOK ==
  /\ \A i \in Ids :
       /\ i \in sending => stage[i] = "broadcast"
       /\ left[i] # {} => stage[i] = "broadcast"
       /\ left[i] \subseteq Subs \X {i}
  /\ \A b \in Senders \ Ids : left[b] \subseteq Subs \X {i \in repeated : Begun(i)}
  /\ \A s \in Subs :
       /\ Once(ch[s], repeated)
       /\ \A i \in Range(ch[s]) : Begun(i) /\ (i \in repeated \/ <<s, i>> \notin left[i])

\* What may be written twice on s.
Again(s) == {i \in repeated : i > lastBackfilledID[s]}

\* If stamps go up with the ids, what a live connection got above its backfill
\* came through its channel.
OnceOK ==
  "stamps" \in ordered => \A s \in Subs :
    /\ Once(written[s], Again(s))
    /\ pc[s] = "live" =>
         \A i \in Range(written[s]) :
           i > lastBackfilledID[s] =>
             /\ Begun(i)
             /\ i \in repeated \/ (<<s, i>> \notin left[i] /\ i \notin Range(ch[s]))

-----------------------------------------------------------------------------
\* s is past its backfill, which left nothing out, and its client listens.
Followed(s) == pc[s] \notin {"new", "backfill"} /\ s \in open /\ Filled(s)

\* The ids below one that is stored are stored.
PrefixStored ==
  \A i, j \in Ids : j < i /\ stage[i] # "none" => stage[j] # "none"

\* A backfill has all of its filter up to its highest id, and what a subscription
\* has not got is on its way to it or yet to be broadcast.
Coming(s, i) ==
  /\ i <= lastBackfilledID[s] => i \in Range(written[s])
  /\ s \in subscribers => \/ i \in Covered(s)
                          \/ i \in Range(ch[s])
                          \/ ~Begun(i)
                          \/ <<s, i>> \in left[i]

CommitsOK ==
  "commits" \in ordered =>
    /\ PrefixStored
    /\ \A s \in Subs : Followed(s) /\ pc[s] = "live" =>
         \A i \in Wants[s] : i > from[s] => Coming(s, i)

-----------------------------------------------------------------------------
Increasing(q) == \A j, k \in DOMAIN q : j < k => q[j] < q[k]

AllOrdered == ordered = {"commits", "stamps", "broadcasts"}

\* With all in order: first broadcasts go one by one.
OrderOK ==
  AllOrdered => \A i, j \in Ids : j < i /\ Begun(i) => stage[j] = "done"

\* A client listens to one connection, which it opened with what it had got;
\* frames are above that.
OpenOK ==
  /\ \A s \in open : from[s] = lastEventID[KeyOf[s]]
  /\ \A s, t \in open : KeyOf[s] = KeyOf[t] => s = t
  /\ \A s \in Subs : pc[s] = "live" => from[s] <= lastBackfilledID[s]
  /\ \A s \in Subs : \A i \in Range(written[s]) : i > from[s]

\* The first n of q.
FirstOf(q, n) == {q[k] : k \in 1..n}

\* What is below a frame of s, or below an event in its channel, came before it:
\* an event that is broadcast again comes when there is nothing below it to come.
NoGaps(s) ==
  /\ \A n \in DOMAIN written[s], i \in Wants[s] :
       from[s] < i /\ i < written[s][n] => i \in dropped[s] \cup FirstOf(written[s], n)
  /\ pc[s] = "live" =>
       \A n \in DOMAIN ch[s], i \in Wants[s] :
         from[s] < i /\ i < ch[s][n] => i \in Covered(s) \cup FirstOf(ch[s], n)

\* With all in order: a connection leaves no gap below a frame.
GapsOK == AllOrdered => \A s \in Subs : Followed(s) => NoGaps(s)

\* The connections of a client, and what they covered.
Mine(c) == {s \in Subs : KeyOf[s] = c}
CoveredFor(c) == UNION {Covered(s) : s \in Mine(c)}

\* The events that all of a client's filters match.
WantedBy(c) == {i \in Ids : \A s \in Mine(c) : i \in Wants[s]}

\* With all in order: what a client would resume from leaves no gap below.
ResumedOK ==
  AllOrdered => \A c \in Clients :
    (\A s \in Mine(c) : Filled(s)) =>
      \A i \in WantedBy(c) : i <= lastEventID[c] => i \in CoveredFor(c)

-----------------------------------------------------------------------------
(* Sequences of ids *)

\* What a frame or a message more does to a sequence.
LEMMA AppendSet ==
  ASSUME NEW q \in Seq(Ids), NEW e \in Ids
  PROVE  /\ Append(q, e) \in Seq(Ids) /\ q \o <<e>> = Append(q, e)
         /\ Range(Append(q, e)) = Range(q) \cup {e}
         /\ \A R : Once(q, R) /\ (e \in R \/ e \notin Range(q)) => Once(Append(q, e), R)
<1> DEFINE p == Append(q, e)
<1>1. /\ p \in Seq(Ids) /\ Len(p) = Len(q) + 1 /\ Len(q) \in Nat
      /\ p[Len(q) + 1] = e /\ \A k \in 1..Len(q) : p[k] = q[k]
      /\ DOMAIN p = 1..(Len(q) + 1) /\ DOMAIN q = 1..Len(q)
      /\ q \o <<e>> = p
  OBVIOUS
<1> HIDE DEF p
<1>2. Range(p) = Range(q) \cup {e}
  <2>1. ASSUME NEW x \in Range(p) PROVE x \in Range(q) \cup {e}
    BY <1>1 DEF Range
  <2>2. ASSUME NEW x \in Range(q) PROVE x \in Range(p)
    <3>1. PICK k \in 1..Len(q) : x = q[k]
      BY <1>1, Zenon DEF Range
    <3> QED
      BY <1>1, <3>1 DEF Range
  <2>3. e \in Range(p)
    <3>1. Len(q) + 1 \in DOMAIN p
      BY <1>1
    <3> QED
      BY <1>1, <3>1, Zenon DEF Range
  <2> QED
    BY <2>1, <2>2, <2>3, Zenon
<1>3. \A k \in 1..Len(q) : q[k] \in Range(q)
  BY <1>1, Zenon DEF Range
<1>4. ASSUME NEW R, Once(q, R), e \in R \/ e \notin Range(q) PROVE Once(p, R)
  <2> SUFFICES ASSUME NEW j \in 1..(Len(q) + 1), NEW k \in 1..(Len(q) + 1), p[j] = p[k]
               PROVE  j = k \/ p[j] \in R
    BY <1>1, Zenon DEF Once
  <2>1. \A l \in 1..(Len(q) + 1) : l \in 1..Len(q) \/ l = Len(q) + 1
    BY <1>1
  <2>2. CASE j \in 1..Len(q) /\ k \in 1..Len(q)
    BY <1>1, <1>4, <2>2, Zenon DEF Once
  <2>3. CASE j \in 1..Len(q) /\ k = Len(q) + 1
    BY <1>1, <1>3, <1>4, <2>3, Zenon
  <2>4. CASE j = Len(q) + 1 /\ k \in 1..Len(q)
    BY <1>1, <1>3, <1>4, <2>4, Zenon
  <2> QED
    BY <2>1, <2>2, <2>3, <2>4, Zenon
<1> QED
  BY <1>1, <1>2, <1>4, Zenon DEF p

\* Where the frames or messages before it are.
LEMMA AppendPlaces ==
  ASSUME NEW q \in Seq(Ids), NEW e \in Ids, NEW p, p = Append(q, e), NEW n \in DOMAIN p
  PROVE  \/ n \in DOMAIN q /\ p[n] = q[n] /\ FirstOf(p, n) = FirstOf(q, n)
         \/ p[n] = e /\ Range(q) \subseteq FirstOf(p, n)
<1>1. /\ Len(q) \in Nat /\ p[Len(q) + 1] = e /\ \A k \in 1..Len(q) : p[k] = q[k]
      /\ DOMAIN p = 1..(Len(q) + 1) /\ DOMAIN q = 1..Len(q)
  OBVIOUS
<1>2. CASE n \in 1..Len(q)
  <2>1. \A k \in 1..n : p[k] = q[k]
    BY <1>1, <1>2
  <2> QED
    BY <1>1, <1>2, <2>1, Zenon DEF FirstOf
<1>3. CASE n = Len(q) + 1
  <2>1. \A k \in 1..Len(q) : k \in 1..n /\ p[k] = q[k]
    BY <1>1, <1>3
  <2> QED
    BY <1>1, <1>3, <2>1, Zenon DEF FirstOf, Range
<1> QED
  BY <1>1, <1>2, <1>3

\* What taking the first message leaves.
LEMMA TailSet ==
  ASSUME NEW q \in Seq(Ids), q # <<>>
  PROVE  /\ Tail(q) \in Seq(Ids) /\ Head(q) \in Ids
         /\ Range(q) = Range(Tail(q)) \cup {Head(q)}
         /\ \A R : Once(q, R) => /\ Once(Tail(q), R)
                                 /\ Head(q) \in R \/ Head(q) \notin Range(Tail(q))
<1> DEFINE p == Tail(q)
           h == Head(q)
<1>1. /\ p \in Seq(Ids) /\ Len(q) = Len(p) + 1 /\ Len(p) \in Nat
      /\ h = q[1] /\ h \in Ids /\ \A k \in 1..Len(p) : p[k] = q[k + 1]
      /\ DOMAIN p = 1..Len(p) /\ DOMAIN q = 1..(Len(p) + 1)
  OBVIOUS
<1> HIDE DEF p, h
<1>2. Range(q) = Range(p) \cup {h}
  <2>1. ASSUME NEW x \in Range(q) PROVE x \in Range(p) \cup {h}
    <3>1. PICK k \in 1..(Len(p) + 1) : x = q[k]
      BY <1>1, Zenon DEF Range
    <3>2. CASE k # 1
      <4>1. k - 1 \in 1..Len(p) /\ p[k - 1] = q[k]
        BY <1>1, <3>2
      <4> QED
        BY <1>1, <3>1, <4>1, Zenon DEF Range
    <3> QED
      BY <1>1, <3>1, <3>2, Zenon
  <2>2. ASSUME NEW x \in Range(p) PROVE x \in Range(q)
    <3>1. PICK k \in 1..Len(p) : x = p[k]
      BY <1>1, Zenon DEF Range
    <3>2. k + 1 \in DOMAIN q /\ q[k + 1] = x
      BY <1>1, <3>1
    <3> QED
      BY <3>2, Zenon DEF Range
  <2>3. h \in Range(q)
    <3>1. 1 \in DOMAIN q
      BY <1>1
    <3> QED
      BY <1>1, <3>1, Zenon DEF Range
  <2> QED
    BY <2>1, <2>2, <2>3, Zenon
<1>3. \A k \in 1..Len(p) : k + 1 \in DOMAIN q /\ 1 \in DOMAIN q /\ 1 < k + 1
  BY <1>1
<1>4. ASSUME NEW R, Once(q, R) PROVE Once(p, R) /\ (h \in R \/ h \notin Range(p))
  <2>1. ASSUME NEW j \in 1..Len(p), NEW k \in 1..Len(p), p[j] = p[k]
        PROVE  j = k \/ p[j] \in R
    <3>1. q[j + 1] = q[k + 1] /\ p[j] = q[j + 1]
      BY <1>1, <2>1, Zenon
    <3>2. j + 1 = k + 1 \/ p[j] \in R
      BY <1>3, <1>4, <3>1, Zenon DEF Once
    <3> QED
      BY <1>1, <3>2
  <2>2. ASSUME NEW k \in 1..Len(p), p[k] = h PROVE h \in R
    <3>1. q[k + 1] = q[1] /\ q[1] = h
      BY <1>1, <2>2, Zenon
    <3>2. k + 1 = 1 \/ h \in R
      BY <1>3, <1>4, <3>1, Zenon DEF Once
    <3> QED
      BY <3>2
  <2> QED
    BY <1>1, <2>1, <2>2, Zenon DEF Once, Range
<1> QED
  BY <1>1, <1>2, <1>4, Zenon DEF p, h

\* Where the first message and the ones after it were.
LEMMA TailPlaces ==
  ASSUME NEW q \in Seq(Ids), q # <<>>
  PROVE  /\ 1 \in DOMAIN q /\ q[1] = Head(q) /\ FirstOf(q, 1) = {Head(q)}
         /\ \A n \in DOMAIN Tail(q) :
              \E m \in DOMAIN q : /\ Tail(q)[n] = q[m]
                                  /\ FirstOf(q, m) = FirstOf(Tail(q), n) \cup {Head(q)}
<1> DEFINE p == Tail(q)
           h == Head(q)
<1>1. /\ p \in Seq(Ids) /\ Len(q) = Len(p) + 1 /\ Len(p) \in Nat
      /\ h = q[1] /\ \A k \in 1..Len(p) : p[k] = q[k + 1]
      /\ DOMAIN p = 1..Len(p) /\ DOMAIN q = 1..(Len(p) + 1)
  OBVIOUS
<1> HIDE DEF p, h
<1>2. 1 \in DOMAIN q /\ 1..1 = {1}
  BY <1>1
<1>3. FirstOf(q, 1) = {h}
  BY <1>1, <1>2, Zenon DEF FirstOf
<1>4. ASSUME NEW n \in DOMAIN p
      PROVE  \E m \in DOMAIN q : p[n] = q[m] /\ FirstOf(q, m) = FirstOf(p, n) \cup {h}
  <2>1. n \in 1..Len(p) /\ n + 1 \in DOMAIN q /\ p[n] = q[n + 1]
    BY <1>1
  <2>2. ASSUME NEW x \in FirstOf(q, n + 1) PROVE x \in FirstOf(p, n) \cup {h}
    <3>1. PICK k \in 1..(n + 1) : x = q[k]
      BY <2>2, Zenon DEF FirstOf
    <3>2. CASE k # 1
      <4>1. k - 1 \in 1..n /\ p[k - 1] = q[k]
        BY <1>1, <2>1, <3>1, <3>2
      <4> QED
        BY <3>1, <4>1, Zenon DEF FirstOf
    <3> QED
      BY <1>1, <3>1, <3>2, Zenon
  <2>3. ASSUME NEW x \in FirstOf(p, n) PROVE x \in FirstOf(q, n + 1)
    <3>1. PICK k \in 1..n : x = p[k]
      BY <2>3, Zenon DEF FirstOf
    <3>2. k + 1 \in 1..(n + 1) /\ q[k + 1] = x
      BY <1>1, <2>1, <3>1
    <3> QED
      BY <3>2, Zenon DEF FirstOf
  <2>4. h \in FirstOf(q, n + 1)
    <3>1. 1 \in 1..(n + 1)
      BY <1>1, <2>1
    <3> QED
      BY <1>1, <3>1, Zenon DEF FirstOf
  <2> QED
    BY <2>1, <2>2, <2>3, <2>4, Zenon
<1> QED
  BY <1>1, <1>2, <1>3, <1>4, Zenon DEF p, h

\* What a client keeps that got the first n frames.
LEMMA PrefixSet ==
  ASSUME NEW q \in Seq(Ids), NEW n \in 0..Len(q)
  PROVE  LET p == SubSeq(q, 1, n)
         IN  /\ p \in Seq(Ids) /\ Range(p) \subseteq Range(q)
             /\ \A R : Once(q, R) => Once(p, R)
             /\ Increasing(q) => \A i \in Range(p) : n > 0 /\ i <= q[n]
             /\ n = Len(q) => p = q
             /\ n > 0 => n \in DOMAIN q /\ q[n] \in Range(p) /\ q[n] \in Ids
             /\ Range(p) = FirstOf(q, n)
             /\ \A k \in DOMAIN p : /\ k \in DOMAIN q /\ p[k] = q[k]
                                    /\ FirstOf(p, k) = FirstOf(q, k)
<1> DEFINE p == SubSeq(q, 1, n)
<1>1. /\ p \in Seq(Ids) /\ Len(p) = n /\ n \in Nat /\ Len(q) \in Nat
      /\ \A k \in 1..n : p[k] = q[k] /\ q[k] \in Ids
      /\ DOMAIN p = 1..n /\ DOMAIN q = 1..Len(q) /\ 1..n \subseteq 1..Len(q)
  OBVIOUS
<1>2. n = Len(q) => p = q
  BY <1>1
<1> HIDE DEF p
<1>3. Range(p) \subseteq Range(q) /\ Range(p) = FirstOf(q, n)
  BY <1>1, Zenon DEF Range, FirstOf
<1>4. ASSUME NEW R, Once(q, R) PROVE Once(p, R)
  BY <1>1, <1>4, Zenon DEF Once
<1>5. ASSUME NEW k \in DOMAIN p
      PROVE  k \in DOMAIN q /\ p[k] = q[k] /\ FirstOf(p, k) = FirstOf(q, k)
  <2>1. k \in 1..n /\ \A m \in 1..k : p[m] = q[m]
    BY <1>1
  <2> QED
    BY <1>1, <2>1, Zenon DEF FirstOf
<1>6. n > 0 => n \in DOMAIN q /\ q[n] \in Range(p) /\ q[n] \in Ids
  BY <1>1 DEF Range
<1>7. ASSUME Increasing(q), NEW i \in Range(p) PROVE n > 0 /\ i <= q[n]
  <2>1. PICK k \in 1..n : i = q[k]
    BY <1>1, <1>7, Zenon DEF Range
  <2>2. q[k] \in Int /\ q[n] \in Int /\ n \in 1..Len(q) /\ k \in 1..Len(q)
    <3>1. q[k] \in Ids /\ q[n] \in Ids /\ n \in 1..Len(q) /\ k \in 1..Len(q)
      BY <1>1, <2>1
    <3> QED
      BY <3>1, StreamAssumption DEF Ids
  <2>3. k < n => q[k] < q[n]
    BY <1>1, <1>7, <2>2, Zenon DEF Increasing
  <2> QED
    BY <2>1, <2>2, <2>3
<1> QED
  BY <1>1, <1>2, <1>3, <1>4, <1>5, <1>6, <1>7, Zenon DEF p

\* Where a sequence goes up, what is below a member comes before it.
LEMMA BelowComesFirst ==
  ASSUME NEW q \in Seq(Ids), Increasing(q), NEW n \in DOMAIN q,
         NEW i \in Range(q), i < q[n]
  PROVE  i \in FirstOf(q, n)
<1>1. PICK k \in DOMAIN q : i = q[k]
  BY Zenon DEF Range
<1>2. q[k] \in Int /\ q[n] \in Int /\ k \in Nat \ {0} /\ n \in Nat
  BY StreamAssumption DEF Ids
<1>3. ~(n < k)
  BY <1>1, <1>2 DEF Increasing
<1>4. k \in 1..n
  BY <1>2, <1>3
<1> QED
  BY <1>1, <1>4, Zenon DEF FirstOf

-----------------------------------------------------------------------------
(* What a backfill query returns *)

\* e holds the rows from a to b of the sorted list q of S.
Page(e, S, rank, q, a, b) ==
  /\ e \in Seq(Ids) /\ Range(e) \subseteq S
  /\ \A j, k \in DOMAIN e : j < k => rank[e[j]] < rank[e[k]]
  /\ IsInjective(e)
  /\ Len(e) = b - a + 1
  /\ a = 1 /\ b = Len(q) => Range(e) = S

\* The rows from a to b of a sorted list.
LEMMA PageIs ==
  ASSUME NEW S \in SUBSET Ids, NEW rank \in [Ids -> Ids], NEW q \in Sorted(S, rank),
         NEW a \in Nat \ {0}, NEW b \in Nat,
         b <= Len(q), a <= b + 1
  PROVE  Page(SubSeq(q, a, b), S, rank, q, a, b)
<1> DEFINE e == SubSeq(q, a, b)
           n == b - a + 1
<1>1. PICK m \in 0..MaxId : q \in [1..m -> S]
  BY Zenon DEF Sorted
<1>2. /\ Range(q) = S
      /\ \A j, k \in DOMAIN q : j < k => rank[q[j]] < rank[q[k]]
  BY Zenon DEF Sorted
<1>3. /\ q \in Seq(Ids) /\ Len(q) \in Nat /\ q \in [1..Len(q) -> S] /\ DOMAIN q = 1..Len(q)
  BY <1>1, StreamAssumption
<1>4. /\ n \in Nat /\ e \in Seq(Ids) /\ Len(e) = n /\ DOMAIN e = 1..n
      /\ \A k \in 1..n : e[k] = q[a + k - 1] /\ a + k - 1 \in 1..Len(q)
  <2>1. n \in Nat /\ \A k \in 1..n : a + k - 1 \in 1..Len(q)
    BY <1>3
  <2>2. a \in 1..(Len(q) + 1) /\ b \in 0..Len(q)
    BY <1>3
  <2>3. e \in Seq(Ids) /\ Len(e) = n
    BY <1>3, <2>1, <2>2
  <2>4. \A k \in 1..n : e[k] = q[a + k - 1]
    BY <1>3, <2>1, <2>2
  <2> QED
    BY <2>1, <2>3, <2>4
<1> HIDE DEF e, n
<1>5. \A k \in 1..n : e[k] \in S
  BY <1>3, <1>4, Zenon
<1>6. Range(e) \subseteq S
  BY <1>4, <1>5, Zenon DEF Range
<1>7. ASSUME NEW j \in 1..n, NEW k \in 1..n, j < k PROVE rank[e[j]] < rank[e[k]]
  <2>1. a + j - 1 < a + k - 1
    BY <1>4, <1>7
  <2> QED
    BY <1>2, <1>3, <1>4, <2>1, Zenon
<1>8. ASSUME NEW j \in 1..n, NEW k \in 1..n, e[j] = e[k] PROVE j = k
  <2>0. Ids \subseteq Int
    BY StreamAssumption DEF Ids
  <2>1. rank[e[j]] \in Int
    BY <1>5, <2>0, Zenon
  <2>2. ~(j < k) /\ ~(k < j)
    BY <1>7, <1>8, <2>1
  <2> QED
    BY <1>4, <2>2
<1>9. ASSUME a = 1, b = Len(q) PROVE Range(e) = S
  <2>1. n = Len(q) /\ \A k \in 1..n : e[k] = q[k]
    BY <1>3, <1>4, <1>9 DEF n
  <2> QED
    BY <1>2, <1>3, <1>4, <2>1, Zenon DEF Range
<1> QED
  BY <1>4, <1>6, <1>7, <1>8, <1>9, Zenon DEF e, n, IsInjective, Page

\* What the client has not got yet.
Wanted(s) == {i \in Matching(s) : i > from[s]}

\* A backfill query answers with stored rows the client has not got, each once,
\* in the order of their ids if stamps have it, and with all of them unless
\* there are as many as the limit.
LEMMA AnswerIs ==
  ASSUME StreamOK, NEW s \in Subs, NEW events \in Answers(s)
  PROVE  /\ events \in Seq(Ids) /\ IsInjective(events)
         /\ Range(events) \subseteq Wanted(s)
         /\ "stamps" \in ordered => Increasing(events)
         /\ Len(events) < sseBackfillLimit => Range(events) = Wanted(s)
<1> DEFINE idRank == [i \in Ids |-> i]
<1>1. /\ idRank \in [Ids -> Ids] /\ stamp \in [Ids -> Ids]
      /\ "stamps" \in ordered => stamp = idRank
      /\ from[s] \in Nat
  BY StreamAssumption DEF StreamOK
<1> DEFINE L == sseBackfillLimit
<1>2. L \in Nat \ {0} /\ Wanted(s) \in SUBSET Ids
  BY StreamAssumption, Zenon DEF Wanted, Matching, Stored
<1>3. ASSUME NEW S, NEW rank, NEW q \in Sorted(S, rank) PROVE Len(q) \in Nat
  BY <1>3, StreamAssumption DEF Sorted
<1>4. CASE from[s] > 0
  <2>1. PICK q \in Sorted(Wanted(s), idRank) :
          events = SubSeq(q, 1, IF Len(q) < L THEN Len(q) ELSE L)
    BY <1>4, Zenon DEF Answers, since, Wanted
  <2> DEFINE b == IF Len(q) < L THEN Len(q) ELSE L
  <2>2. /\ b \in Nat /\ b <= Len(q) /\ 1 \in Nat \ {0} /\ 1 <= b + 1 /\ b - 1 + 1 = b
        /\ b < L => b = Len(q)
    <3>1. Len(q) \in Nat
      BY <1>3, Zenon
    <3> QED
      BY <1>2, <3>1
  <2> HIDE DEF b, L, idRank
  <2>4. /\ events \in Seq(Ids) /\ IsInjective(events) /\ Range(events) \subseteq Wanted(s)
        /\ \A j, k \in DOMAIN events : j < k => idRank[events[j]] < idRank[events[k]]
        /\ Len(events) = b
        /\ b = Len(q) => Range(events) = Wanted(s)
    <3>1. Page(SubSeq(q, 1, b), Wanted(s), idRank, q, 1, b)
      BY <1>1, <1>2, <2>1, <2>2, PageIs, Zenon
    <3>2. Page(events, Wanted(s), idRank, q, 1, b)
      BY <3>1, <2>1, Zenon DEF b
    <3> QED
      BY <2>2, <3>2, Zenon DEF Page
  <2>5. \A k \in DOMAIN events : idRank[events[k]] = events[k]
    BY <2>4 DEF idRank
  <2>6. Increasing(events)
    BY <2>4, <2>5, Zenon DEF Increasing
  <2> QED
    BY <2>2, <2>4, <2>6, Zenon DEF L
<1>5. CASE ~(from[s] > 0)
  <2>0. Wanted(s) = Matching(s)
    BY <1>1, <1>5, StreamAssumption DEF Wanted, Matching, Stored, Ids
  <2>1. PICK q \in Sorted(Wanted(s), stamp) :
          events = SubSeq(q, IF Len(q) > L THEN Len(q) - L + 1 ELSE 1, Len(q))
    BY <1>5, <2>0, Zenon DEF Answers, recent
  <2> DEFINE n == Len(q)
             a == IF n > L THEN n - L + 1 ELSE 1
  <2>2. n \in Nat /\ a \in Nat \ {0} /\ n <= n /\ a <= n + 1 /\ (n - a + 1 < L => a = 1)
    <3>1. n \in Nat
      BY <1>3, Zenon
    <3> QED
      BY <1>2, <3>1
  <2>3. events = SubSeq(q, a, n)
    BY <2>1, Zenon
  <2> HIDE DEF a, L, idRank
  <2>4. /\ events \in Seq(Ids) /\ IsInjective(events) /\ Range(events) \subseteq Wanted(s)
        /\ \A j, k \in DOMAIN events : j < k => stamp[events[j]] < stamp[events[k]]
        /\ Len(events) = n - a + 1
        /\ a = 1 => Range(events) = Wanted(s)
    <3>1. Page(SubSeq(q, a, n), Wanted(s), stamp, q, a, n)
      BY <1>1, <1>2, <2>1, <2>2, PageIs, Zenon
    <3>2. Page(events, Wanted(s), stamp, q, a, n)
      BY <3>1, <2>3, Zenon
    <3> QED
      BY <2>2, <3>2, Zenon DEF Page
  <2>5. ASSUME "stamps" \in ordered PROVE Increasing(events)
    <3>1. \A k \in DOMAIN events : stamp[events[k]] = events[k]
      BY <1>1, <2>4, <2>5 DEF idRank
    <3> QED
      BY <2>4, <3>1, Zenon DEF Increasing
  <2> QED
    BY <2>2, <2>4, <2>5, Zenon DEF L
<1> QED
  BY <1>4, <1>5, Zenon

-----------------------------------------------------------------------------
(* What the steps of a connection do *)

Backfilled(s, events, n) ==
  /\ pc[s] = "backfill"
  /\ events \in Seq(Ids) /\ IsInjective(events) /\ Range(events) \subseteq Wanted(s)
  /\ "stamps" \in ordered => Increasing(events)
  /\ Len(events) < sseBackfillLimit => Range(events) = Wanted(s)
  /\ n \in 0..Len(events)
  /\ written' = IF s \in open THEN [written EXCEPT ![s] = SubSeq(events, 1, n)]
                              ELSE written
  /\ lastBackfilledID' = [lastBackfilledID EXCEPT ![s] =
                            IF n > 0 /\ n = Len(events) THEN events[n] ELSE from[s]]
  /\ pc' = [pc EXCEPT ![s] = IF n < Len(events) THEN "broken" ELSE "live"]
  /\ backfilled' = [backfilled EXCEPT ![s] = Len(events)]
  /\ UNCHANGED <<brokerVars, dbVars, from, clientVars, server, failed>>

\* A backfill step sends a prefix of the query's answer.
LEMMA BackfillIs ==
  ASSUME StreamOK, NEW s \in Subs, Backfill(s)
  PROVE  \E events, n : Backfilled(s, events, n)
<1>1. PICK events \in Answers(s) :
        BackfillOf(s, events, IF events = <<>> THEN 0 ELSE events[Len(events)])
  BY Zenon DEF Backfill
<1>2. /\ events \in Seq(Ids) /\ IsInjective(events) /\ Range(events) \subseteq Wanted(s)
      /\ "stamps" \in ordered => Increasing(events)
      /\ Len(events) < sseBackfillLimit => Range(events) = Wanted(s)
  BY AnswerIs, Zenon
<1> DEFINE high == IF events = <<>> THEN 0 ELSE events[Len(events)]
<1>3. pc[s] = "backfill"
  BY <1>1, Zenon DEF BackfillOf
<1>4. PICK n \in 0..Len(events) :
        /\ Write(s, SubSeq(events, 1, n))
        /\ lastBackfilledID' = [lastBackfilledID EXCEPT ![s] =
                                  IF n > 0 /\ n = Len(events) THEN high ELSE from[s]]
        /\ pc' = [pc EXCEPT ![s] = IF n < Len(events) THEN "broken" ELSE "live"]
  BY <1>1, Zenon DEF BackfillOf
<1>5. /\ backfilled' = [backfilled EXCEPT ![s] = Len(events)]
      /\ UNCHANGED <<brokerVars, dbVars, from, clientVars, server, failed>>
  BY <1>1, Zenon DEF BackfillOf
<1>6. n > 0 /\ n = Len(events) => high = events[n]
  BY <1>2
<1>7. written[s] \o SubSeq(events, 1, n) = SubSeq(events, 1, n) /\ written \in [Subs -> Seq(Ids)]
  <2>1. written[s] = <<>> /\ written \in [Subs -> Seq(Ids)]
    BY <1>3, Zenon DEF StreamOK
  <2>2. SubSeq(events, 1, n) \in Seq(Ids)
    BY <1>2, <1>4, PrefixSet, Zenon
  <2> QED
    BY <2>1, <2>2
<1>8. written' = IF s \in open THEN [written EXCEPT ![s] = SubSeq(events, 1, n)]
                               ELSE written
  BY <1>4, <1>7, Zenon DEF Write
<1>9. lastBackfilledID' = [lastBackfilledID EXCEPT ![s] =
                             IF n > 0 /\ n = Len(events) THEN events[n] ELSE from[s]]
  BY <1>4, <1>6, Zenon
<1> HIDE DEF high
<1>10. Backfilled(s, events, n)
  BY <1>2, <1>3, <1>4, <1>5, <1>8, <1>9, Zenon DEF Backfilled
<1> QED
  BY <1>10, Zenon

\* The live loop takes a message, and writes it if backfill has not.
Taken(s) ==
  /\ pc[s] = "live" /\ ch[s] \in Seq(Ids) /\ ch[s] # <<>>
  /\ ch' = [ch EXCEPT ![s] = Tail(@)]
  /\ written' = IF s \in open /\ Head(ch[s]) > lastBackfilledID[s]
                THEN [written EXCEPT ![s] = Append(@, Head(ch[s]))]
                ELSE written
  /\ UNCHANGED <<subscribers, byClient, chClosed, created, sending, left, dropped,
                 dbVars, connVars, clientVars, server, backfilled, failed>>

\* A step of the live loop takes the head of the channel.
LEMMA LiveIs ==
  ASSUME StreamOK, SafeInv, NEW s \in Subs, Live(s)
  PROVE  Taken(s)
<1>1. /\ pc[s] = "live" /\ ch[s] # <<>> /\ ch' = [ch EXCEPT ![s] = Tail(@)]
      /\ UNCHANGED <<subscribers, byClient, chClosed, created, sending, left, dropped,
                     dbVars, connVars, clientVars, server, backfilled, failed>>
  BY Zenon DEF Live, B!Receive, B!loopVars
<1>2. /\ ch[s] \in Seq(Ids) /\ written[s] \in Seq(Ids) /\ written \in [Subs -> Seq(Ids)]
      /\ lastBackfilledID[s] \in Int
  BY StreamAssumption DEF SafeInv, B!TypeOK, StreamOK
<1>3. Head(ch[s]) \in Ids /\ Head(ch[s]) \in Int
  <2>1. Head(ch[s]) \in Ids
    BY <1>1, <1>2, TailSet, Zenon
  <2> QED
    BY <2>1, StreamAssumption DEF Ids
<1>4. written[s] \o <<Head(ch[s])>> = Append(written[s], Head(ch[s]))
  BY <1>2, <1>3, AppendSet, Zenon
<1>5. written' = IF Head(ch[s]) <= lastBackfilledID[s] THEN written
                 ELSE IF s \in open
                      THEN [written EXCEPT ![s] = @ \o <<Head(ch[s])>>] ELSE written
  BY Zenon DEF Live, Write
<1>6. Head(ch[s]) <= lastBackfilledID[s] <=> ~(Head(ch[s]) > lastBackfilledID[s])
  BY <1>2, <1>3
<1> QED
  BY <1>1, <1>2, <1>4, <1>5, <1>6, Zenon DEF Taken

\* The client keeps n frames.
Left(s, n) ==
  /\ s \in open /\ open' = open \ {s}
  /\ n \in 0..Len(written[s])
  /\ written' = [written EXCEPT ![s] = SubSeq(@, 1, n)]
  /\ lastEventID' = IF n = 0 THEN lastEventID
                    ELSE [lastEventID EXCEPT ![KeyOf[s]] = written[s][n]]
  /\ UNCHANGED <<brokerVars, dbVars, connVars, server, backfilled, failed>>

\* A client that leaves keeps a prefix of its frames.
LEMMA LeaveIs ==
  ASSUME NEW s \in Subs, ClientLeaves(s)
  PROVE  \E n : Left(s, n)
  BY Zenon DEF ClientLeaves, Left

\* The handler returns.
LEMMA ReturnIs ==
  ASSUME NEW s \in Subs, ChannelClosed(s) \/ WriteFails(s) \/ Disconnected(s)
  PROVE  /\ pc[s] \in {"live", "broken"} /\ pc' = [pc EXCEPT ![s] = "gone"]
         /\ subscribers' = subscribers \ {s}
         /\ UNCHANGED <<ch, sending, left, dropped, dbVars, from, lastBackfilledID,
                        clientVars, server, frames>>
  BY Zenon DEF ChannelClosed, WriteFails, Disconnected, Return, B!Unsubscribe, B!loopVars

\* ordered says what this behaviour is about.
LEMMA OrderedFixed ==
  ASSUME [Next]_vars
  PROVE  ordered' = ordered /\ stamp' = stamp
<1>1. ASSUME NEW s \in Subs, Connect(s) \/ Handler(s) \/ ClientLeaves(s)
      PROVE  ordered' = ordered /\ stamp' = stamp
  BY <1>1, Zenon DEF Connect, Opens, Handler, Backfill, BackfillOf, BackfillFails, Live, ChannelClosed,
              WriteFails, Disconnected, Return, ClientLeaves, dbVars
<1> QED
  BY <1>1, Zenon DEF Next, Commit, BroadcastStarts, BroadcastAgain, BroadcastEnds, BroadcastSends,
              ShutBrokers, StopAccepting, vars, dbVars

-----------------------------------------------------------------------------
(* Types *)

\* Ids are positive.
LEMMA IdsAreNat == Ids \subseteq Nat \ {0} /\ Ids \subseteq 0..MaxId /\ Ids \subseteq Int
  BY StreamAssumption DEF Ids

\* The initial state has the types.
LEMMA StreamInit ==
  ASSUME Init
  PROVE  StreamOK
<1>1. stamp \in [Ids -> Ids] /\ ("stamps" \in ordered => stamp = [i \in Ids |-> i])
  BY Zenon DEF Init, Stamps
<1>2. 0 \in 0..MaxId
  BY StreamAssumption
<1>3. <<>> \in Seq(Ids)
  OBVIOUS
<1> QED
  BY <1>1, <1>2, <1>3, StreamAssumption, Zenon DEF Init, StreamOK

\* Only the steps of a connection and of its client touch what it has got.
LEMMA StreamStep ==
  ASSUME StreamOK, SafeInv, [Next]_vars
  PROVE  StreamOK'
<1>1. ASSUME \/ \E i \in Ids : Commit(i) \/ BroadcastStarts(i)
             \/ \E b \in Senders : BroadcastEnds(b)
      PROVE  StreamOK'
  <2>1. /\ stage' \in [Ids -> {"none", "committed", "broadcast", "done"}]
        /\ UNCHANGED <<ordered, stamp, repeats, repeated, connVars, clientVars, server, frames>>
    BY <1>1, Zenon DEF Commit, BroadcastStarts, BroadcastEnds, StreamOK
  <2> QED
    BY <2>1, Zenon DEF StreamOK, connVars, clientVars, frames
<1>a. ASSUME NEW i \in Ids, BroadcastAgain(i) PROVE StreamOK'
  <2>1. /\ repeats' \in Nat /\ repeated' \subseteq Ids
        /\ UNCHANGED <<ordered, stamp, stage, connVars, clientVars, server, frames>>
    BY <1>a, AgainSender, Zenon DEF BroadcastAgain, StreamOK
  <2> QED
    BY <2>1, Zenon DEF StreamOK, connVars, clientVars, frames
<1>2. ASSUME UNCHANGED <<dbVars, connVars, clientVars, frames>>
      PROVE  StreamOK'
  BY <1>2, Zenon DEF StreamOK, dbVars, connVars, clientVars, frames
<1>3. ASSUME NEW s \in Subs, Connect(s) PROVE StreamOK'
  <2>1. /\ pc[s] = "new" /\ open' = open \cup {s} /\ pc' = [pc EXCEPT ![s] = "backfill"]
        /\ from' = [from EXCEPT ![s] = lastEventID[KeyOf[s]]]
        /\ UNCHANGED <<dbVars, lastBackfilledID, lastEventID, server, frames>>
    BY <1>3, Zenon DEF Connect, Opens
  <2>2. lastEventID[KeyOf[s]] \in 0..MaxId
    BY StreamAssumption, Zenon DEF StreamOK
  <2> QED
    BY <2>1, <2>2, Zenon DEF StreamOK, dbVars, frames
<1>4. ASSUME NEW s \in Subs, Backfill(s) PROVE StreamOK'
  <2>1. PICK events, n : Backfilled(s, events, n)
    BY <1>4, BackfillIs, Zenon
  <2>2. /\ events \in Seq(Ids) /\ n \in 0..Len(events) /\ Range(events) \subseteq Ids
        /\ SubSeq(events, 1, n) \in Seq(Ids) /\ (n > 0 => events[n] \in 0..MaxId)
    <3>1. events \in Seq(Ids) /\ n \in 0..Len(events)
      BY <2>1 DEF Backfilled
    <3>2. SubSeq(events, 1, n) \in Seq(Ids) /\ (n > 0 => events[n] \in Ids)
      BY <3>1, PrefixSet, Zenon
    <3> QED
      BY <2>1, <3>1, <3>2, IdsAreNat, Zenon DEF Backfilled, Wanted, Matching, Stored
  <2>3. pc[s] = "backfill" /\ s \in Subs
        /\ UNCHANGED <<dbVars, from, clientVars, failed>>
    BY <2>1, Zenon DEF Backfilled
  <2>4. written' \in [Subs -> Seq(Ids)] /\ \A t \in Subs \ {s} : written'[t] = written[t]
    BY <2>1, <2>2, Zenon DEF Backfilled, StreamOK
  <2>5. /\ lastBackfilledID' \in [Subs -> 0..MaxId]
        /\ backfilled' \in [Subs -> Nat]
        /\ \A t \in Subs \ {s} : backfilled'[t] = backfilled[t]
    <3>1. from[s] \in 0..MaxId
      BY Zenon DEF StreamOK
    <3> QED
      BY <2>1, <2>2, <3>1 DEF Backfilled, StreamOK
  <2>6. /\ pc' \in [Subs -> {"new", "backfill", "live", "broken", "gone"}]
        /\ pc'[s] \in {"live", "broken"} /\ \A t \in Subs \ {s} : pc'[t] = pc[t]
    BY <2>1, Zenon DEF Backfilled, StreamOK
  <2> QED
    BY <2>3, <2>4, <2>5, <2>6, Zenon DEF StreamOK, dbVars, clientVars
<1>5. ASSUME NEW s \in Subs, BackfillFails(s) PROVE StreamOK'
  BY <1>5, Zenon DEF BackfillFails, StreamOK, dbVars, clientVars
<1>6. ASSUME NEW s \in Subs, Live(s) PROVE StreamOK'
  <2>1. Taken(s)
    BY <1>6, LiveIs, Zenon
  <2>2. /\ pc[s] = "live" /\ ch[s] \in Seq(Ids) /\ ch[s] # <<>>
        /\ UNCHANGED <<dbVars, connVars, clientVars, backfilled, failed>>
    BY <2>1, Zenon DEF Taken
  <2>3. Append(written[s], Head(ch[s])) \in Seq(Ids)
    <3>1. Head(ch[s]) \in Ids /\ written[s] \in Seq(Ids)
      BY <2>2, TailSet, Zenon DEF StreamOK
    <3> QED
      BY <3>1, AppendSet, Zenon
  <2>4. written' \in [Subs -> Seq(Ids)] /\ \A t \in Subs \ {s} : written'[t] = written[t]
    BY <2>1, <2>3, Zenon DEF Taken, StreamOK
  <2> QED
    BY <2>2, <2>4, Zenon DEF StreamOK, dbVars, connVars, clientVars
<1>7. ASSUME NEW s \in Subs, ChannelClosed(s) \/ WriteFails(s) \/ Disconnected(s)
      PROVE  StreamOK'
  <2>1. /\ pc' = [pc EXCEPT ![s] = "gone"]
        /\ UNCHANGED <<dbVars, from, lastBackfilledID, clientVars, frames>>
    BY <1>7, ReturnIs, Zenon
  <2> QED
    BY <2>1, Zenon DEF StreamOK, dbVars, clientVars, frames
<1>8. ASSUME NEW s \in Subs, ClientLeaves(s) PROVE StreamOK'
  <2>1. PICK n : Left(s, n)
    BY <1>8, LeaveIs, Zenon
  <2>2. written[s] \in Seq(Ids) /\ n \in 0..Len(written[s]) /\ written \in [Subs -> Seq(Ids)]
    BY <2>1, Zenon DEF Left, StreamOK
  <2>3. SubSeq(written[s], 1, n) \in Seq(Ids) /\ (n > 0 => written[s][n] \in 0..MaxId)
    BY <2>2, PrefixSet, IdsAreNat, Zenon
  <2>4. lastEventID' \in [Clients -> 0..MaxId]
    <3>1. n # 0 => written[s][n] \in 0..MaxId
      BY <2>2, <2>3
    <3> QED
      BY <2>1, <3>1, StreamAssumption, Zenon DEF Left, StreamOK
  <2>5. written' \in [Subs -> Seq(Ids)] /\ \A t \in Subs \ {s} : written'[t] = written[t]
    BY <2>1, <2>2, <2>3, Zenon DEF Left
  <2>6. written[s] = <<>> => written'[s] = <<>>
    <3>1. SubSeq(<<>>, 1, 0) = <<>>
      OBVIOUS
    <3>2. written[s] = <<>> => n = 0
      BY <2>2
    <3> QED
      BY <2>1, <2>2, <3>1, <3>2, Zenon DEF Left
  <2>7. open' = open \ {s} /\ UNCHANGED <<dbVars, connVars, backfilled, failed>>
    BY <2>1, Zenon DEF Left
  <2> QED
    BY <2>4, <2>5, <2>6, <2>7, Zenon DEF StreamOK, dbVars, connVars
<1>9. ASSUME NEW b \in Senders, NEW i \in Ids, NEW s \in Subs, BroadcastSends(b, i, s)
      PROVE  StreamOK'
  BY <1>2, <1>9, Zenon DEF BroadcastSends
<1>10. ASSUME ShutBrokers \/ StopAccepting \/ UNCHANGED vars PROVE StreamOK'
  BY <1>2, <1>10, Zenon DEF ShutBrokers, StopAccepting, vars
<1> QED
  BY <1>1, <1>a, <1>3, <1>4, <1>5, <1>6, <1>7, <1>8, <1>9, <1>10, Zenon DEF Next, Handler

\* The streams keep their types, for every number of clients and events.
THEOREM StreamCorrect == Spec => []StreamOK
<1>1. Init => StreamOK
  BY StreamInit, Zenon
<1>2. StreamOK /\ SafeInv /\ [Next]_vars => StreamOK'
  BY StreamStep, Zenon
<1> QED
  BY <1>1, <1>2, BrokerIsSafe, PTL DEF Spec

-----------------------------------------------------------------------------
(* What a step leaves alone *)

\* A connection to which a step does nothing.
Untouched(t) ==
  /\ pc'[t] = pc[t] /\ (t \in open' <=> t \in open) /\ from'[t] = from[t]
  /\ lastBackfilledID'[t] = lastBackfilledID[t] /\ written'[t] = written[t]
  /\ backfilled'[t] = backfilled[t] /\ failed'[t] = failed[t]

\* Nothing that is said of such a connection changes.
LEMMA UntouchedIs ==
  ASSUME NEW t, Untouched(t)
  PROVE  (Followed(t)' <=> Followed(t)) /\ (Filled(t)' <=> Filled(t))
  BY Zenon DEF Untouched, Followed, Filled

\* A step of one connection does nothing to another.
LEMMA OthersUntouched ==
  ASSUME StreamOK, SafeInv, NEW s \in Subs, NEW t \in Subs \ {s},
         \/ Connect(s) \/ Backfill(s) \/ BackfillFails(s) \/ Live(s) \/ ClientLeaves(s)
         \/ ChannelClosed(s) \/ WriteFails(s) \/ Disconnected(s)
  PROVE  /\ Untouched(t) /\ ch'[t] = ch[t] /\ dropped' = dropped
         /\ t \in subscribers' <=> t \in subscribers
<1>0. /\ pc = [x \in Subs |-> pc[x]] /\ from = [x \in Subs |-> from[x]]
      /\ lastBackfilledID = [x \in Subs |-> lastBackfilledID[x]]
      /\ written = [x \in Subs |-> written[x]] /\ backfilled = [x \in Subs |-> backfilled[x]]
      /\ failed = [x \in Subs |-> failed[x]] /\ ch = [x \in Subs |-> ch[x]]
  BY Zenon DEF StreamOK, SafeInv, B!TypeOK
<1>1. CASE Connect(s)
  BY <1>0, <1>1, Zenon DEF Connect, Opens, B!Subscribe, B!loopVars, frames, Untouched
<1>2. CASE Backfill(s)
  <2>1. PICK events, n : Backfilled(s, events, n)
    BY <1>2, BackfillIs, Zenon
  <2> QED
    BY <1>0, <2>1, Zenon DEF Backfilled, brokerVars, clientVars, Untouched
<1>3. CASE BackfillFails(s)
  BY <1>0, <1>3, Zenon DEF BackfillFails, brokerVars, clientVars, Untouched
<1>4. CASE Live(s)
  <2>1. Taken(s)
    BY <1>4, LiveIs, Zenon
  <2> QED
    BY <1>0, <2>1, Zenon DEF Taken, connVars, clientVars, Untouched
<1>5. CASE ClientLeaves(s)
  <2>1. PICK n : Left(s, n)
    BY <1>5, LeaveIs, Zenon
  <2> QED
    BY <1>0, <2>1, Zenon DEF Left, brokerVars, connVars, Untouched
<1>6. CASE ChannelClosed(s) \/ WriteFails(s) \/ Disconnected(s)
  BY <1>0, <1>6, ReturnIs DEF clientVars, frames, Untouched
<1> QED
  BY <1>1, <1>2, <1>3, <1>4, <1>5, <1>6

\* Nor does a step of an event, or of the server.
LEMMA EventUntouched ==
  ASSUME UNCHANGED <<connVars, clientVars, frames>>
  PROVE  \A t : Untouched(t)
  BY Zenon DEF connVars, clientVars, frames, Untouched

-----------------------------------------------------------------------------
(* Each broadcast of an event goes through a channel once *)

\* Every step that is not about a broadcast or a channel.
Elsewhere == UNCHANGED <<ch, sending, left, stage, repeated>>

\* Steps of a connection other than taking a message leave channels alone.
LEMMA ElsewhereIs ==
  ASSUME NEW s \in Subs,
         \/ Connect(s) \/ Backfill(s) \/ BackfillFails(s) \/ ClientLeaves(s)
         \/ ChannelClosed(s) \/ WriteFails(s) \/ Disconnected(s)
  PROVE  Elsewhere
<1>1. CASE Connect(s)
  BY <1>1, Zenon DEF Connect, Opens, B!Subscribe, B!loopVars, dbVars, Elsewhere
<1>2. CASE Backfill(s) \/ BackfillFails(s) \/ ClientLeaves(s)
  BY <1>2 DEF Backfill, BackfillOf, BackfillFails, ClientLeaves, brokerVars, dbVars, Elsewhere
<1>3. CASE ChannelClosed(s) \/ WriteFails(s) \/ Disconnected(s)
  BY <1>3, ReturnIs, Zenon DEF dbVars, Elsewhere
<1> QED
  BY <1>1, <1>2, <1>3, Zenon

\* The steps of an event's broadcast.
LEMMA StartIs ==
  ASSUME StreamOK, SafeInv, NEW i \in Ids, BroadcastStarts(i)
  PROVE  /\ stage[i] = "committed" /\ stage' = [stage EXCEPT ![i] = "broadcast"]
         /\ sending' = sending \cup {i}
         /\ left' = [left EXCEPT ![i] = subscribers \X {i}]
         /\ "broadcasts" \in ordered => \A j \in Ids : j < i => stage[j] = "done"
         /\ UNCHANGED <<subscribers, ch, dropped, ordered, stamp, repeated, connVars,
                        clientVars, server, frames>>
  BY Zenon DEF BroadcastStarts, B!BroadcastStarts, B!subVars

\* A repeat is of an event whose broadcast has begun.
LEMMA AgainIs ==
  ASSUME StreamOK, NEW i \in Ids, BroadcastAgain(i)
  PROVE  /\ Begun(i) /\ stage' = stage /\ repeated' = repeated \cup {i}
         /\ \E b \in Senders \ Ids : /\ sending' = sending \cup {b}
                                     /\ left' = [left EXCEPT ![b] = subscribers \X {i}]
         /\ UNCHANGED <<subscribers, ch, dropped, ordered, stamp, connVars, clientVars,
                        server, frames>>
<1>1. /\ MaxId + repeats' \in Senders \ Ids
      /\ B!BroadcastStarts(MaxId + repeats', i)
  BY AgainSender, Zenon DEF StreamOK
<1> QED
  BY <1>1, Zenon DEF BroadcastAgain, B!BroadcastStarts, B!subVars, Begun

\* A send goes to one channel, or is dropped there.
LEMMA SendIs ==
  ASSUME NEW b \in Senders, NEW i \in Ids, NEW s \in Subs, BroadcastSends(b, i, s)
  PROVE  /\ <<s, i>> \in left[b]
         /\ left' = [left EXCEPT ![b] = @ \ {<<s, i>>}]
         /\ \/ i \notin Wants[s] /\ UNCHANGED <<ch, dropped>>
            \/ ch' = [ch EXCEPT ![s] = Append(@, i)] /\ dropped' = dropped
            \/ dropped' = [dropped EXCEPT ![s] = @ \cup {i}] /\ ch' = ch
         /\ UNCHANGED <<subscribers, sending, dbVars, connVars, clientVars, server, frames>>
<1>1. /\ B!BroadcastSends(b, s, i)
      /\ UNCHANGED <<dbVars, connVars, clientVars, server, frames>>
  BY Zenon DEF BroadcastSends
<1>2. /\ <<s, i>> \in left[b]
      /\ left' = [left EXCEPT ![b] = @ \ {<<s, i>>}]
      /\ \/ i \notin Wants[s] /\ UNCHANGED <<ch, dropped>>
         \/ ch' = [ch EXCEPT ![s] = Append(@, i)] /\ dropped' = dropped
         \/ dropped' = [dropped EXCEPT ![s] = @ \cup {i}] /\ ch' = ch
      /\ UNCHANGED <<subscribers, byClient, chClosed, created, sending>>
  BY <1>1, Zenon DEF B!BroadcastSends
<1> QED
  BY <1>1, <1>2

\* What is sent is the sender's own event, or one that was broadcast again.
LEMMA SentBy ==
  ASSUME SentOK, NEW b \in Senders, NEW i \in Ids, NEW s \in Subs, <<s, i>> \in left[b]
  PROVE  Begun(i) /\ (b = i \/ (b \notin Ids /\ i \in repeated))
<1>1. CASE b \in Ids
  BY <1>1, Zenon DEF SentOK, Begun
<1>2. CASE b \notin Ids
  BY <1>2 DEF SentOK
<1> QED
  BY <1>1, <1>2, Zenon

\* A broadcast ends when nothing is left to send.
LEMMA EndIs ==
  ASSUME NEW b \in Senders, BroadcastEnds(b)
  PROVE  /\ b \in sending /\ left[b] = {} /\ sending' = sending \ {b}
         /\ stage' = IF b \in Ids THEN [stage EXCEPT ![b] = "done"] ELSE stage
         /\ UNCHANGED <<subscribers, ch, left, dropped, ordered, stamp, repeated, connVars,
                        clientVars, server, frames>>
  BY Zenon DEF BroadcastEnds, B!BroadcastEnds, B!subVars

\* A commit changes nothing but the event's stage.
LEMMA CommitIs ==
  ASSUME NEW i \in Ids, Commit(i)
  PROVE  /\ stage[i] = "none" /\ stage' = [stage EXCEPT ![i] = "committed"]
         /\ "commits" \in ordered => \A j \in Ids : j < i => stage[j] # "none"
         /\ UNCHANGED <<subscribers, ch, sending, left, dropped, ordered, stamp, repeated,
                        connVars, clientVars, server, frames>>
  BY Zenon DEF Commit, brokerVars

\* An event's stage moves on only when it is committed and by its first broadcast.
LEMMA StageMoves ==
  ASSUME StreamOK, SafeInv, [Next]_vars
  PROVE  \/ \E i \in Ids : Commit(i) \/ BroadcastStarts(i) \/ BroadcastEnds(i)
         \/ UNCHANGED stage
<1>1. ASSUME NEW b \in Senders \ Ids, BroadcastEnds(b) PROVE UNCHANGED stage
  BY <1>1, EndIs, Zenon
<1>2. ASSUME NEW i \in Ids, BroadcastAgain(i) PROVE UNCHANGED stage
  BY <1>2, AgainIs, Zenon
<1>3. ASSUME NEW s \in Subs, Live(s) PROVE UNCHANGED stage
  BY <1>3, LiveIs, Zenon DEF Taken, dbVars
<1>4. ASSUME NEW b \in Senders, NEW i \in Ids, NEW s \in Subs, BroadcastSends(b, i, s)
      PROVE  UNCHANGED stage
  BY <1>4, SendIs, Zenon DEF dbVars
<1>5. ASSUME ShutBrokers \/ StopAccepting \/ UNCHANGED vars PROVE UNCHANGED stage
  BY <1>5, Zenon DEF ShutBrokers, StopAccepting, vars, dbVars
<1> QED
  BY <1>1, <1>2, <1>3, <1>4, <1>5, ElsewhereIs, Zenon DEF Next, Handler, Elsewhere

\* No step sends an event through a channel a second time, but for a repeat.
LEMMA SentStep ==
  ASSUME StreamOK, SafeInv, SentOK, [Next]_vars
  PROVE  SentOK'
<1>0. /\ stage \in [Ids -> {"none", "committed", "broadcast", "done"}]
      /\ ch \in [Subs -> Seq(Ids)] /\ subscribers \subseteq Subs
      /\ left \in [Senders -> SUBSET (Subs \X Ids)] /\ repeated \subseteq Ids
  BY Zenon DEF StreamOK, SafeInv, B!TypeOK
<1>r. \A s \in Subs : Range(ch[s]) \subseteq Ids
  BY <1>0 DEF Range
<1> DEFINE First(i) == /\ i \in sending => stage[i] = "broadcast"
                       /\ left[i] # {} => stage[i] = "broadcast"
                       /\ left[i] \subseteq Subs \X {i}
           Repeat(b) == left[b] \subseteq Subs \X {i \in repeated : Begun(i)}
           Line(s) == /\ Once(ch[s], repeated)
                      /\ \A i \in Range(ch[s]) :
                           Begun(i) /\ (i \in repeated \/ <<s, i>> \notin left[i])
<1>a. /\ \A i \in Ids : First(i)
      /\ \A b \in Senders \ Ids : Repeat(b)
      /\ \A s \in Subs : Line(s)
  BY Zenon DEF SentOK
<1>b. ASSUME \A i \in Ids : First(i)', \A b \in Senders \ Ids : Repeat(b)',
             \A s \in Subs : Line(s)'
      PROVE  SentOK'
  BY <1>b, Zenon DEF SentOK
<1>c. ASSUME \A i \in Ids : Begun(i) => Begun(i)', repeated \subseteq repeated',
             NEW b \in Senders \ Ids, left'[b] \subseteq left[b]
      PROVE  Repeat(b)'
  BY <1>0, <1>a, <1>c
<1>d. ASSUME \A i \in Ids : Begun(i) => Begun(i)' /\ left'[i] \subseteq left[i],
             repeated \subseteq repeated', NEW s \in Subs, ch'[s] = ch[s]
      PROVE  Line(s)'
  <2>1. Once(ch[s], repeated) => Once(ch[s], repeated')
    BY <1>d, Zenon DEF Once
  <2> QED
    BY <1>a, <1>d, <1>r, <2>1, Zenon
<1>1. ASSUME NEW i \in Ids, Commit(i) PROVE SentOK'
  <2>1. /\ stage[i] = "none" /\ stage' = [stage EXCEPT ![i] = "committed"]
        /\ UNCHANGED <<ch, sending, left, repeated>>
    BY <1>1, CommitIs, Zenon
  <2>2. \A j \in Ids : (stage[j] = "broadcast" => stage'[j] = "broadcast")
                       /\ (Begun(j) => Begun(j)')
    BY <1>0, <2>1, Zenon DEF Begun
  <2>3. \A j \in Ids : First(j)'
    BY <1>a, <2>1, <2>2, Zenon
  <2> QED
    BY <1>b, <1>c, <1>d, <2>1, <2>2, <2>3, Zenon
<1>2. ASSUME NEW i \in Ids, BroadcastStarts(i) PROVE SentOK'
  <2>1. /\ stage[i] = "committed" /\ stage' = [stage EXCEPT ![i] = "broadcast"]
        /\ sending' = sending \cup {i} /\ left' = [left EXCEPT ![i] = subscribers \X {i}]
        /\ UNCHANGED <<ch, repeated>>
    BY <1>2, StartIs, Zenon
  <2>2. /\ \A j \in Ids : Begun(j) => j # i /\ Begun(j)' /\ left'[j] = left[j]
        /\ \A b \in Senders \ Ids : left'[b] = left[b]
    BY <1>0, <2>1, SendersAre, Zenon DEF Begun
  <2>3. ASSUME NEW j \in Ids PROVE First(j)'
    <3>1. CASE j = i
      BY <1>0, <2>1, <3>1, SendersAre, Zenon
    <3>2. CASE j # i
      <4>1. stage'[j] = stage[j] /\ left'[j] = left[j] /\ (j \in sending' <=> j \in sending)
        BY <1>0, <2>1, <3>2, SendersAre, Zenon
      <4> QED
        BY <1>a, <4>1, Zenon
    <3> QED
      BY <3>1, <3>2, Zenon
  <2>4. ASSUME NEW s \in Subs PROVE Line(s)'
    BY <1>a, <1>r, <2>1, <2>2, Zenon
  <2> QED
    BY <1>b, <1>c, <2>1, <2>2, <2>3, <2>4, Zenon
<1>3. ASSUME NEW i \in Ids, BroadcastAgain(i) PROVE SentOK'
  <2>1. /\ Begun(i) /\ stage' = stage /\ repeated' = repeated \cup {i} /\ ch' = ch
    BY <1>3, AgainIs, Zenon
  <2>2. PICK b \in Senders \ Ids : /\ sending' = sending \cup {b}
                                   /\ left' = [left EXCEPT ![b] = subscribers \X {i}]
    BY <1>3, AgainIs, Zenon
  <2>3. /\ \A j \in Ids : (Begun(j)' <=> Begun(j)) /\ left'[j] = left[j]
        /\ \A c \in Senders \ Ids : c # b => left'[c] = left[c]
        /\ left'[b] = subscribers \X {i}
    BY <1>0, <2>1, <2>2, SendersAre, Zenon DEF Begun
  <2>4. \A j \in Ids : First(j)'
    BY <1>a, <2>1, <2>2, <2>3, Zenon
  <2>5. ASSUME NEW c \in Senders \ Ids PROVE Repeat(c)'
    <3>1. CASE c = b
      BY <1>0, <2>1, <2>3, <3>1, Zenon
    <3>2. CASE c # b
      BY <1>c, <2>1, <2>3, <3>2, Zenon
    <3> QED
      BY <3>1, <3>2, Zenon
  <2> QED
    BY <1>b, <1>d, <2>1, <2>3, <2>4, <2>5, Zenon
<1>4. ASSUME NEW b \in Senders, NEW i \in Ids, NEW s \in Subs, BroadcastSends(b, i, s)
      PROVE  SentOK'
  <2>1. /\ <<s, i>> \in left[b] /\ left' = [left EXCEPT ![b] = @ \ {<<s, i>>}]
        /\ ch' = [ch EXCEPT ![s] = Append(@, i)] \/ ch' = ch
        /\ sending' = sending /\ stage' = stage /\ repeated' = repeated
    BY <1>4, SendIs, Zenon DEF dbVars
  <2>2. /\ \A j : Begun(j)' <=> Begun(j)
        /\ \A c \in Senders : left'[c] \subseteq left[c]
    BY <1>0, <2>1, Zenon DEF Begun
  <2>3. /\ Begun(i)
        /\ i \in repeated \/ (i \notin Range(ch[s]) /\ <<s, i>> \notin left'[i])
    <3>1. Begun(i) /\ (b = i \/ i \in repeated)
      BY <2>1, SentBy, Zenon
    <3>2. b = i => <<s, i>> \in left[i] /\ <<s, i>> \notin left'[i]
      BY <1>0, <2>1, Zenon
    <3> QED
      BY <1>a, <3>1, <3>2, Zenon
  <2>4. ASSUME NEW u \in Subs PROVE Line(u)'
    <3>1. CASE ch'[u] = ch[u]
      BY <1>d, <2>1, <2>2, <3>1, SendersAre, Zenon
    <3>2. CASE u = s /\ ch'[s] = Append(ch[s], i)
      <4>1. Range(ch'[s]) = Range(ch[s]) \cup {i} /\ Once(ch'[s], repeated)
        BY <1>0, <1>a, <2>3, <3>2, AppendSet, Zenon
      <4> QED
        BY <1>a, <1>r, <2>1, <2>2, <2>3, <3>2, <4>1, SendersAre, Zenon
    <3> QED
      BY <1>0, <2>1, <3>1, <3>2, Zenon
  <2>5. \A j \in Ids : First(j)'
    BY <1>a, <2>1, <2>2, SendersAre, Zenon
  <2> QED
    BY <1>b, <1>c, <2>1, <2>2, <2>4, <2>5, Zenon
<1>5. ASSUME NEW b \in Senders, BroadcastEnds(b) PROVE SentOK'
  <2>1. /\ left[b] = {} /\ sending' = sending \ {b}
        /\ stage' = IF b \in Ids THEN [stage EXCEPT ![b] = "done"] ELSE stage
        /\ UNCHANGED <<ch, left, repeated>>
    BY <1>5, EndIs, Zenon
  <2>2. \A j \in Ids : (j # b => stage'[j] = stage[j]) /\ (Begun(j) => Begun(j)')
    BY <1>0, <2>1, Zenon DEF Begun
  <2>3. \A j \in Ids : First(j)'
    BY <1>a, <2>1, <2>2, Zenon
  <2> QED
    BY <1>b, <1>c, <1>d, <2>1, <2>2, <2>3, Zenon
<1>6. ASSUME NEW s \in Subs, Live(s) PROVE SentOK'
  <2>1. /\ ch[s] \in Seq(Ids) /\ ch[s] # <<>> /\ ch' = [ch EXCEPT ![s] = Tail(@)]
        /\ UNCHANGED <<sending, left, stage, repeated>>
    BY <1>6, LiveIs DEF Taken, dbVars
  <2>2. /\ Range(Tail(ch[s])) \subseteq Range(ch[s])
        /\ Once(ch[s], repeated) => Once(Tail(ch[s]), repeated)
    BY <2>1, TailSet, Zenon
  <2>3. \A u \in Subs : ch'[u] = IF u = s THEN Tail(ch[s]) ELSE ch[u]
    BY <1>0, <2>1, Zenon
  <2>b. \A j : Begun(j)' <=> Begun(j)
    BY <2>1, Zenon DEF Begun
  <2>4. ASSUME NEW u \in Subs PROVE Line(u)'
    <3>1. CASE u = s
      <4>1. ch'[s] = Tail(ch[s])
        BY <2>3, Zenon
      <4>2. Once(ch'[s], repeated) /\ Range(ch'[s]) \subseteq Range(ch[s])
        BY <1>a, <2>2, <4>1, Zenon
      <4> QED
        BY <1>a, <2>1, <2>b, <3>1, <4>2, Zenon
    <3>2. CASE u # s
      BY <1>d, <2>1, <2>3, <2>b, <3>2, Zenon
    <3> QED
      BY <3>1, <3>2, Zenon
  <2>5. /\ \A i \in Ids : First(i)'
        /\ \A b \in Senders \ Ids : Repeat(b)'
    BY <1>a, <2>1, <2>b, Zenon
  <2> QED
    BY <1>b, <2>4, <2>5, Zenon
<1>7. ASSUME Elsewhere PROVE SentOK'
  BY <1>7, Zenon DEF Elsewhere, SentOK, Begun
<1>8. ASSUME ShutBrokers \/ StopAccepting \/ UNCHANGED vars PROVE Elsewhere
  BY <1>8, Zenon DEF ShutBrokers, B!Shutdown, B!loopVars, StopAccepting, vars, brokerVars, dbVars,
              Elsewhere
<1> QED
  BY <1>1, <1>2, <1>3, <1>4, <1>5, <1>6, <1>7, <1>8, ElsewhereIs, Zenon DEF Next, Handler

\* A backfill in the order of the ids returns its highest one.
LEMMA BelowHighest ==
  ASSUME StreamOK, NEW s \in Subs, NEW events, NEW n, Backfilled(s, events, n),
         "stamps" \in ordered, pc'[s] = "live", NEW j \in Range(SubSeq(events, 1, n))
  PROVE  ~(j > lastBackfilledID'[s])
<1>1. /\ events \in Seq(Ids) /\ n \in 0..Len(events) /\ Increasing(events)
      /\ pc' = [pc EXCEPT ![s] = IF n < Len(events) THEN "broken" ELSE "live"]
      /\ lastBackfilledID' = [lastBackfilledID EXCEPT ![s] =
                                IF n > 0 /\ n = Len(events) THEN events[n] ELSE from[s]]
  BY Zenon DEF Backfilled
<1>2. n > 0 /\ j <= events[n]
  BY <1>1, PrefixSet, Zenon
<1>3. n = Len(events)
  BY <1>1 DEF StreamOK
<1>4. lastBackfilledID'[s] = events[n]
  BY <1>1, <1>2, <1>3, Zenon DEF StreamOK
<1>5. j \in Int /\ events[n] \in Int
  <2>1. /\ events[n] \in Ids /\ SubSeq(events, 1, n) \in Seq(Ids)
    BY <1>1, <1>2, PrefixSet, Zenon
  <2>2. j \in Ids
    BY <2>1 DEF Range
  <2> QED
    BY <2>1, <2>2, IdsAreNat, Zenon
<1> QED
  BY <1>2, <1>4, <1>5

\* What a live connection got above its backfill, and what its channel still
\* holds, stay apart, but for what was broadcast again.
LEMMA OnceStep ==
  ASSUME StreamOK, SafeInv, SentOK, OnceOK, "stamps" \in ordered, [Next]_vars, NEW t \in Subs
  PROVE  /\ Once(written'[t], Again(t)')
         /\ pc'[t] = "live" =>
              \A i \in Range(written'[t]) :
                i > lastBackfilledID'[t] =>
                  /\ Begun(i)'
                  /\ i \in repeated' \/ (<<t, i>> \notin left'[i] /\ i \notin Range(ch'[t]))
<1>0. /\ stage \in [Ids -> {"none", "committed", "broadcast", "done"}]
      /\ ch \in [Subs -> Seq(Ids)] /\ written \in [Subs -> Seq(Ids)]
      /\ left \in [Senders -> SUBSET (Subs \X Ids)]
      /\ \A s \in Subs : Range(written[s]) \subseteq Ids
      /\ pc \in [Subs -> {"new", "backfill", "live", "broken", "gone"}]
      /\ lastBackfilledID \in [Subs -> 0..MaxId]
  <2>1. written \in [Subs -> Seq(Ids)]
    BY Zenon DEF StreamOK
  <2>2. \A s \in Subs : Range(written[s]) \subseteq Ids
    BY <2>1 DEF Range
  <2> QED
    BY <2>1, <2>2, Zenon DEF StreamOK, SafeInv, B!TypeOK
<1> DEFINE Apart(i) == /\ Begun(i)
                       /\ i \in repeated \/ (<<t, i>> \notin left[i] /\ i \notin Range(ch[t]))
           Fine == /\ Once(written[t], Again(t))
                   /\ pc[t] = "live" =>
                        \A i \in Range(written[t]) : i > lastBackfilledID[t] => Apart(i)
<1>a. Fine
  BY Zenon DEF OnceOK
<1>b. ASSUME written'[t] = written[t], repeated \subseteq repeated',
             lastBackfilledID'[t] = lastBackfilledID[t],
             pc'[t] = "live" => /\ pc[t] = "live"
                                /\ \A i \in Range(written[t]) : Apart(i) => Apart(i)'
      PROVE  Fine'
  BY <1>a, <1>b, Zenon DEF Once, Again
<1>c. ASSUME UNCHANGED <<ch, left, repeated, connVars, frames>>,
             \A i \in Ids : Begun(i) => Begun(i)'
      PROVE  Fine'
  BY <1>0, <1>b, <1>c, Zenon DEF connVars, frames
<1>1. ASSUME NEW i \in Ids, Commit(i) PROVE Fine'
  <2>1. /\ stage' = [stage EXCEPT ![i] = "committed"] /\ stage[i] = "none"
        /\ UNCHANGED <<ch, left, repeated, connVars, frames>>
    BY <1>1, CommitIs, Zenon
  <2>2. \A j \in Ids : Begun(j) => Begun(j)'
    BY <1>0, <2>1, Zenon DEF Begun
  <2> QED
    BY <1>c, <2>1, <2>2, Zenon
<1>2. ASSUME NEW i \in Ids, BroadcastStarts(i) PROVE Fine'
  <2>1. /\ stage[i] = "committed" /\ stage' = [stage EXCEPT ![i] = "broadcast"]
        /\ left' = [left EXCEPT ![i] = subscribers \X {i}]
        /\ UNCHANGED <<ch, repeated, connVars, frames>>
    BY <1>2, StartIs, Zenon
  <2>2. \A j \in Ids : Begun(j) => j # i /\ Begun(j)' /\ left'[j] = left[j]
    BY <1>0, <2>1, SendersAre, Zenon DEF Begun
  <2> QED
    BY <1>0, <1>b, <2>1, <2>2, Zenon DEF connVars, frames
<1>3. ASSUME NEW i \in Ids, BroadcastAgain(i) PROVE Fine'
  <2>1. /\ stage' = stage /\ repeated' = repeated \cup {i}
        /\ UNCHANGED <<ch, connVars, frames>>
    BY <1>3, AgainIs, Zenon
  <2>2. PICK b \in Senders \ Ids : left' = [left EXCEPT ![b] = subscribers \X {i}]
    BY <1>3, AgainIs, Zenon
  <2>3. \A j \in Ids : (Begun(j) => Begun(j)') /\ left'[j] = left[j]
    BY <1>0, <2>1, <2>2, SendersAre, Zenon DEF Begun
  <2> QED
    BY <1>0, <1>b, <2>1, <2>3, Zenon DEF connVars, frames
<1>4. ASSUME NEW b \in Senders, NEW i \in Ids, NEW s \in Subs, BroadcastSends(b, i, s)
      PROVE  Fine'
  <2>1. /\ <<s, i>> \in left[b] /\ left' = [left EXCEPT ![b] = @ \ {<<s, i>>}]
        /\ ch' = [ch EXCEPT ![s] = Append(@, i)] \/ ch' = ch
        /\ UNCHANGED <<stage, repeated, connVars, frames>>
    BY <1>4, SendIs, Zenon DEF dbVars
  <2>2. \A j \in Ids : (Begun(j) => Begun(j)') /\ left'[j] \subseteq left[j]
    BY <1>0, <2>1, SendersAre, Zenon DEF Begun
  <2>3. \/ Range(ch'[t]) = Range(ch[t])
        \/ t = s /\ Range(ch'[t]) = Range(ch[t]) \cup {i}
    BY <1>0, <2>1, AppendSet, Zenon
  <2>4. t = s => i \in repeated \/ <<t, i>> \in left[i]
    BY <2>1, SentBy, Zenon
  <2>5. ASSUME NEW j \in Ids, Apart(j) PROVE Apart(j)'
    <3>1. CASE j \in repeated
      BY <2>1, <2>2, <2>5, <3>1, Zenon
    <3>2. CASE j \notin repeated
      BY <2>1, <2>2, <2>3, <2>4, <2>5, <3>2, Zenon
    <3> QED
      BY <3>1, <3>2, Zenon
  <2> QED
    BY <1>0, <1>b, <2>1, <2>5, Zenon DEF connVars, frames
<1>5. ASSUME NEW b \in Senders, BroadcastEnds(b) PROVE Fine'
  <2>1. /\ stage' = IF b \in Ids THEN [stage EXCEPT ![b] = "done"] ELSE stage
        /\ UNCHANGED <<ch, left, repeated, connVars, frames>>
    BY <1>5, EndIs, Zenon
  <2>2. \A j \in Ids : Begun(j) => Begun(j)'
    BY <1>0, <2>1, Zenon DEF Begun
  <2> QED
    BY <1>c, <2>1, <2>2, Zenon
<1>6. ASSUME NEW s \in Subs, s # t,
             \/ Connect(s) \/ Backfill(s) \/ BackfillFails(s) \/ ClientLeaves(s)
             \/ ChannelClosed(s) \/ WriteFails(s) \/ Disconnected(s) \/ Live(s)
      PROVE  Fine'
  <2>1. Untouched(t) /\ ch'[t] = ch[t]
    BY <1>6, OthersUntouched, Zenon
  <2>2. UNCHANGED <<left, stage, repeated>>
    BY <1>6, ElsewhereIs, LiveIs, Zenon DEF Elsewhere, Taken, dbVars
  <2>3. \A j : Apart(j) => Apart(j)'
    BY <2>1, <2>2, Zenon DEF Begun
  <2> QED
    BY <1>b, <2>1, <2>2, <2>3, Zenon DEF Untouched
<1>7. ASSUME Live(t) PROVE Fine'
  <2>1. /\ pc[t] = "live" /\ ch[t] \in Seq(Ids) /\ ch[t] # <<>>
        /\ ch' = [ch EXCEPT ![t] = Tail(@)]
        /\ \/ written' = written
           \/ /\ Head(ch[t]) > lastBackfilledID[t]
              /\ written' = [written EXCEPT ![t] = Append(@, Head(ch[t]))]
        /\ UNCHANGED <<left, repeated, stage, connVars>>
    BY <1>7, LiveIs, Zenon DEF Taken, dbVars
  <2> DEFINE h == Head(ch[t])
  <2>2. /\ Range(ch[t]) = Range(Tail(ch[t])) \cup {h} /\ h \in Ids
        /\ h \in repeated \/ h \notin Range(Tail(ch[t]))
    BY <2>1, TailSet, Zenon DEF SentOK
  <2>3. ch'[t] = Tail(ch[t]) /\ \A j : Begun(j)' <=> Begun(j)
    BY <1>0, <2>1, Zenon DEF Begun
  <2>4. \A j : Apart(j) => Apart(j)'
    BY <2>1, <2>2, <2>3, Zenon
  <2> HIDE DEF h
  <2>5. CASE written' = written
    BY <1>b, <2>1, <2>4, <2>5, Zenon DEF connVars
  <2>6. CASE h > lastBackfilledID[t] /\ written'[t] = Append(written[t], h)
    <3>1. h \in Again(t) \/ h \notin Range(written[t])
      BY <1>a, <2>1, <2>2, <2>6, Zenon DEF Again
    <3>2. /\ Once(written'[t], Again(t))
          /\ Range(written'[t]) = Range(written[t]) \cup {h}
      <4>1. written[t] \in Seq(Ids) /\ Once(written[t], Again(t)) /\ h \in Ids
        BY <1>0, <1>a, <2>2, Zenon
      <4> QED
        BY <2>6, <3>1, <4>1, AppendSet, Zenon
    <3>3. Begun(h) /\ (h \in repeated \/ <<t, h>> \notin left[h])
      BY <2>2, Zenon DEF SentOK
    <3>4. \A j : j = h => Apart(j)'
      BY <2>1, <2>2, <2>3, <3>3, Zenon
    <3>5. Again(t)' = Again(t)
      BY <2>1, Zenon DEF Again, connVars
    <3> QED
      BY <1>a, <2>1, <2>4, <3>2, <3>4, <3>5, Zenon DEF connVars
  <2> QED
    BY <1>0, <2>1, <2>5, <2>6, Zenon DEF h
<1>e. Range(<<>>) = {} /\ \A R : Once(<<>>, R)
  BY DEF Range, Once
<1>8. ASSUME Backfill(t) PROVE Fine'
  <2>1. PICK events, n : Backfilled(t, events, n)
    BY <1>8, BackfillIs, Zenon
  <2>2. /\ pc[t] = "backfill" /\ events \in Seq(Ids) /\ n \in 0..Len(events)
        /\ IsInjective(events)
    BY <2>1, Zenon DEF Backfilled
  <2>3. written'[t] = <<>> \/ written'[t] = SubSeq(events, 1, n)
    <3>1. written[t] = <<>>
      BY <2>2, Zenon DEF StreamOK
    <3> QED
      BY <1>0, <2>1, <3>1, Zenon DEF Backfilled
  <2>4. Once(SubSeq(events, 1, n), Again(t)')
    <3>1. Once(events, Again(t)')
      BY <2>2, Zenon DEF IsInjective, Once
    <3> QED
      BY <2>2, <3>1, PrefixSet, Zenon
  <2>5. ASSUME pc'[t] = "live", NEW j \in Range(SubSeq(events, 1, n))
        PROVE  ~(j > lastBackfilledID'[t])
    BY <2>1, <2>5, BelowHighest, Zenon
  <2> QED
    BY <1>e, <2>3, <2>4, <2>5, Zenon
<1>9. ASSUME BackfillFails(t) PROVE Fine'
  <2>1. written'[t] = <<>>
    BY <1>9, Zenon DEF BackfillFails, StreamOK
  <2> QED
    BY <1>e, <2>1, Zenon
<1>10. ASSUME ClientLeaves(t) PROVE Fine'
  <2>1. PICK n : Left(t, n)
    BY <1>10, LeaveIs, Zenon
  <2>2. /\ n \in 0..Len(written[t]) /\ written' = [written EXCEPT ![t] = SubSeq(@, 1, n)]
        /\ UNCHANGED <<ch, left, repeated, stage, connVars>>
    BY <2>1, Zenon DEF Left, brokerVars, dbVars
  <2>3. /\ Range(SubSeq(written[t], 1, n)) \subseteq Range(written[t])
        /\ Once(SubSeq(written[t], 1, n), Again(t))
    BY <1>0, <1>a, <2>2, PrefixSet, Zenon
  <2>4. written'[t] = SubSeq(written[t], 1, n)
    BY <1>0, <2>2, Zenon
  <2>5. /\ \A j : Apart(j) => Apart(j)'
        /\ Again(t)' = Again(t)
    BY <2>2, Zenon DEF Begun, Again, connVars
  <2> QED
    BY <1>a, <2>2, <2>3, <2>4, <2>5, Zenon DEF connVars
<1>11. ASSUME Connect(t) \/ ChannelClosed(t) \/ WriteFails(t) \/ Disconnected(t) PROVE Fine'
  <2>1. repeated' = repeated
    BY <1>11, ElsewhereIs, Zenon DEF Elsewhere
  <2>2. /\ pc' = [pc EXCEPT ![t] = "backfill"] \/ pc' = [pc EXCEPT ![t] = "gone"]
        /\ UNCHANGED <<lastBackfilledID, written>>
    BY <1>11, ReturnIs, Zenon DEF Connect, Opens, frames
  <2>3. pc'[t] # "live"
    BY <1>0, <2>2, Zenon
  <2> QED
    BY <1>b, <2>1, <2>2, <2>3, Zenon
<1>12. ASSUME ShutBrokers \/ StopAccepting \/ UNCHANGED vars PROVE Fine'
  <2>1. UNCHANGED <<ch, left, repeated, connVars, frames, stage>>
    BY <1>12, Zenon DEF ShutBrokers, B!Shutdown, B!loopVars, StopAccepting, vars, brokerVars, dbVars
  <2> QED
    BY <1>c, <2>1, Zenon DEF Begun
<1>13. ASSUME NEW s \in Subs, Connect(s) \/ Handler(s) \/ ClientLeaves(s) PROVE Fine'
  BY <1>6, <1>7, <1>8, <1>9, <1>10, <1>11, <1>13, Zenon DEF Handler
<1>14. Fine'
  BY <1>1, <1>2, <1>3, <1>4, <1>5, <1>12, <1>13, Zenon DEF Next
<1> QED
  BY <1>14, Zenon

\* Channels and connections get each event once, but for what was broadcast
\* again, in every reachable state.
THEOREM OnceCorrect == Spec => [](SentOK /\ OnceOK)
<1>1. Init => SentOK /\ OnceOK
  <2> SUFFICES ASSUME Init PROVE SentOK /\ OnceOK
    OBVIOUS
  <2>1. Range(<<>>) = {} /\ \A R : Once(<<>>, R)
    BY DEF Range, Once
  <2> QED
    BY <2>1, SendersAre, Zenon DEF Init, B!Init, SentOK, OnceOK
<1>2. StreamOK /\ SafeInv /\ SentOK /\ OnceOK /\ [Next]_vars => SentOK' /\ OnceOK'
  BY SentStep, OnceStep, OrderedFixed, Zenon DEF OnceOK
<1> QED
  BY <1>1, <1>2, BrokerIsSafe, StreamCorrect, PTL DEF Spec

\* If stamps go up with the ids, no event is written twice on a connection, in
\* whatever order events are committed and broadcast, whatever the limits and
\* however often clients come back, unless it is above the backfill and its
\* broadcast was repeated.
THEOREM NoEventTwice == Spec => []NoDuplicates
<1>1. OnceOK => NoDuplicates
  BY Zenon DEF OnceOK, Once, Again, NoDuplicates
<1> QED
  BY <1>1, OnceCorrect, PTL

-----------------------------------------------------------------------------
(* Nothing is lost between backfill and live *)

\* If commits go in the order of the ids, no step leaves a hole in the table.
LEMMA PrefixStep ==
  ASSUME StreamOK, SafeInv, SentOK, "commits" \in ordered, PrefixStored, [Next]_vars
  PROVE  PrefixStored'
<1>0. stage \in [Ids -> {"none", "committed", "broadcast", "done"}]
  BY Zenon DEF StreamOK
<1>1. ASSUME NEW i \in Ids, Commit(i) PROVE PrefixStored'
  <2>1. /\ stage' = [stage EXCEPT ![i] = "committed"]
        /\ \A j \in Ids : j < i => stage[j] # "none"
    BY <1>1, CommitIs, Zenon
  <2> QED
    BY <1>0, <2>1, Zenon DEF PrefixStored
<1>2. ASSUME NEW i \in Ids, BroadcastStarts(i) \/ BroadcastEnds(i) PROVE PrefixStored'
  <2>1. \/ stage' = [stage EXCEPT ![i] = "broadcast"]
        \/ stage' = [stage EXCEPT ![i] = "done"]
    BY <1>2, StartIs, EndIs, SendersAre, Zenon
  <2>2. stage[i] # "none"
    BY <1>2, StartIs, EndIs, SendersAre DEF SentOK
  <2> QED
    BY <1>0, <2>1, <2>2, Zenon DEF PrefixStored
<1>3. ASSUME UNCHANGED stage PROVE PrefixStored'
  BY <1>3, Zenon DEF PrefixStored
<1> QED
  BY <1>1, <1>2, <1>3, StageMoves, Zenon

\* The inductive step, for one connection and one event.
LEMMA ComingStep ==
  ASSUME StreamOK, SafeInv, SentOK, "commits" \in ordered, CommitsOK, [Next]_vars,
         NEW t \in Subs, NEW i \in Wants[t], Followed(t)', pc'[t] = "live", i > from'[t]
  PROVE  Coming(t, i)'
<1>i. i \in Ids
  BY StreamAssumption, Zenon
<1>0. /\ stage \in [Ids -> {"none", "committed", "broadcast", "done"}]
      /\ ch \in [Subs -> Seq(Ids)] /\ written \in [Subs -> Seq(Ids)]
      /\ left \in [Senders -> SUBSET (Subs \X Ids)] /\ dropped \in [Subs -> SUBSET Ids]
      /\ pc \in [Subs -> {"new", "backfill", "live", "broken", "gone"}]
      /\ lastBackfilledID \in [Subs -> 0..MaxId] /\ from \in [Subs -> 0..MaxId]
  BY Zenon DEF StreamOK, SafeInv, B!TypeOK
<1>u. ASSUME Untouched(t) PROVE Coming(t, i)
  BY <1>u, UntouchedIs, Zenon DEF Untouched, CommitsOK
<1>1. ASSUME Untouched(t), UNCHANGED <<stage, left, dropped>>, ch'[t] = ch[t],
             t \in subscribers' => t \in subscribers
      PROVE  Coming(t, i)'
  BY <1>u, <1>1, Zenon DEF Coming, Covered, Begun, Untouched
<1>2. ASSUME NEW k \in Ids, Commit(k) PROVE Coming(t, i)'
  <2>1. /\ stage[k] = "none" /\ stage' = [stage EXCEPT ![k] = "committed"]
        /\ UNCHANGED <<subscribers, ch, left, dropped>> /\ Untouched(t)
    BY <1>2, CommitIs, EventUntouched, Zenon
  <2>2. Begun(i)' <=> Begun(i)
    BY <1>0, <2>1 DEF Begun
  <2> QED
    BY <1>u, <2>1, <2>2, Zenon DEF Coming, Covered, Untouched
<1>3. ASSUME NEW k \in Ids, BroadcastStarts(k) PROVE Coming(t, i)'
  <2>1. /\ stage' = [stage EXCEPT ![k] = "broadcast"]
        /\ left' = [left EXCEPT ![k] = subscribers \X {k}]
        /\ UNCHANGED <<subscribers, ch, dropped>> /\ Untouched(t)
    BY <1>3, StartIs, EventUntouched, Zenon
  <2>2. CASE i = k
    <3>1. t \in subscribers => <<t, i>> \in left'[i]
      BY <1>0, <2>1, <2>2, SendersAre, Zenon
    <3> QED
      BY <1>u, <2>1, <3>1, Zenon DEF Coming, Untouched
  <2>3. CASE i # k
    <3>1. (Begun(i)' <=> Begun(i)) /\ left'[i] = left[i]
      BY <1>0, <1>i, <2>1, <2>3, SendersAre, Zenon DEF Begun
    <3> QED
      BY <1>u, <2>1, <3>1, Zenon DEF Coming, Covered, Untouched
  <2> QED
    BY <2>2, <2>3, Zenon
<1>a. ASSUME NEW k \in Ids, BroadcastAgain(k) PROVE Coming(t, i)'
  <2>1. UNCHANGED <<subscribers, ch, dropped, stage>> /\ Untouched(t)
    BY <1>a, AgainIs, EventUntouched, Zenon
  <2>2. PICK b \in Senders \ Ids : left' = [left EXCEPT ![b] = subscribers \X {k}]
    BY <1>a, AgainIs, Zenon
  <2>3. left'[i] = left[i] /\ (Begun(i)' <=> Begun(i))
    BY <1>0, <1>i, <2>1, <2>2, SendersAre, Zenon DEF Begun
  <2> QED
    BY <1>u, <2>1, <2>3, Zenon DEF Coming, Covered, Untouched
<1>4. ASSUME NEW b \in Senders, NEW k \in Ids, NEW u \in Subs, BroadcastSends(b, k, u)
      PROVE  Coming(t, i)'
  <2>1. /\ left' = [left EXCEPT ![b] = @ \ {<<u, k>>}]
        /\ \/ k \notin Wants[u] /\ UNCHANGED <<ch, dropped>>
           \/ ch' = [ch EXCEPT ![u] = Append(@, k)] /\ dropped' = dropped
           \/ dropped' = [dropped EXCEPT ![u] = @ \cup {k}] /\ ch' = ch
        /\ UNCHANGED <<subscribers, stage>> /\ Untouched(t)
    BY <1>4, SendIs, EventUntouched, Zenon DEF dbVars
  <2>2. /\ Range(ch[t]) \subseteq Range(ch'[t]) /\ dropped[t] \subseteq dropped'[t]
        /\ t = u /\ k \in Wants[t] => k \in Range(ch'[t]) \cup dropped'[t]
    <3>1. CASE ch' = [ch EXCEPT ![u] = Append(@, k)] /\ dropped' = dropped
      <4>1. Range(Append(ch[u], k)) = Range(ch[u]) \cup {k}
        BY <1>0, AppendSet, Zenon
      <4>2. t # u => ch'[t] = ch[t]
        BY <1>0, <3>1, Zenon
      <4>3. t = u => ch'[t] = Append(ch[u], k)
        BY <1>0, <3>1, Zenon
      <4> QED
        BY <3>1, <4>1, <4>2, <4>3, Zenon
    <3>2. CASE dropped' = [dropped EXCEPT ![u] = @ \cup {k}] /\ ch' = ch
      BY <1>0, <3>2, Zenon
    <3> QED
      BY <2>1, <3>1, <3>2, Zenon
  <2>3. <<t, i>> \in left[i] => <<t, i>> \in left'[i] \/ (t = u /\ i = k)
    BY <1>0, <1>i, <2>1, SendersAre, Zenon
  <2>4. Begun(i)' <=> Begun(i)
    BY <2>1, Zenon DEF Begun
  <2> QED
    BY <1>u, <2>1, <2>2, <2>3, <2>4, Zenon DEF Coming, Covered, Untouched
<1>5. ASSUME NEW b \in Senders, BroadcastEnds(b) PROVE Coming(t, i)'
  <2>1. /\ b \in sending /\ stage' = IF b \in Ids THEN [stage EXCEPT ![b] = "done"] ELSE stage
        /\ UNCHANGED <<subscribers, ch, left, dropped>> /\ Untouched(t)
    BY <1>5, EndIs, EventUntouched, Zenon
  <2>2. Begun(i)' <=> Begun(i)
    BY <1>0, <1>i, <2>1, Zenon DEF Begun, SentOK
  <2> QED
    BY <1>u, <2>1, <2>2, Zenon DEF Coming, Covered, Untouched
<1>6. ASSUME NEW s \in Subs, s # t,
             \/ Connect(s) \/ Backfill(s) \/ BackfillFails(s) \/ ClientLeaves(s)
             \/ ChannelClosed(s) \/ WriteFails(s) \/ Disconnected(s)
      PROVE  Coming(t, i)'
  <2>1. UNCHANGED <<stage, left>>
    BY <1>6, ElsewhereIs, Zenon DEF Elsewhere
  <2>2. /\ Untouched(t) /\ ch'[t] = ch[t] /\ dropped' = dropped
        /\ t \in subscribers' <=> t \in subscribers
    BY <1>6, OthersUntouched, Zenon
  <2> QED
    BY <1>1, <2>1, <2>2, Zenon
<1>7. ASSUME NEW s \in Subs, s # t, Live(s) PROVE Coming(t, i)'
  <2>1. UNCHANGED <<stage, left>>
    BY <1>7, LiveIs, Zenon DEF Taken, dbVars
  <2>2. /\ Untouched(t) /\ ch'[t] = ch[t] /\ dropped' = dropped
        /\ t \in subscribers' <=> t \in subscribers
    BY <1>7, OthersUntouched, Zenon
  <2> QED
    BY <1>1, <2>1, <2>2, Zenon
<1>8. ASSUME Connect(t) \/ ChannelClosed(t) \/ WriteFails(t) \/ Disconnected(t) PROVE FALSE
  <2>1. pc' = [pc EXCEPT ![t] = "backfill"] \/ pc' = [pc EXCEPT ![t] = "gone"]
    BY <1>8, ReturnIs, Zenon DEF Connect, Opens
  <2> QED
    BY <1>0, <2>1, Zenon
<1>9. ASSUME ClientLeaves(t) PROVE FALSE
  BY <1>9, Zenon DEF ClientLeaves, Followed
<1>10. ASSUME BackfillFails(t) PROVE FALSE
  <2>1. failed' = [failed EXCEPT ![t] = TRUE] /\ failed \in [Subs -> BOOLEAN]
    BY <1>10, Zenon DEF BackfillFails, StreamOK
  <2> QED
    BY <2>1, Zenon DEF Followed, Filled
<1>11. ASSUME Backfill(t) PROVE Coming(t, i)'
  <2>1. PICK events, n : Backfilled(t, events, n)
    BY <1>11, BackfillIs, Zenon
  <2>2. /\ events \in Seq(Ids) /\ n \in 0..Len(events) /\ Range(events) \subseteq Wanted(t)
        /\ Len(events) < sseBackfillLimit => Range(events) = Wanted(t)
        /\ pc' = [pc EXCEPT ![t] = IF n < Len(events) THEN "broken" ELSE "live"]
        /\ lastBackfilledID' = [lastBackfilledID EXCEPT ![t] =
                                  IF n > 0 /\ n = Len(events) THEN events[n] ELSE from[t]]
        /\ backfilled'[t] = Len(events)
        /\ UNCHANGED <<from, open, stage>>
    BY <2>1, Zenon DEF Backfilled, StreamOK, clientVars, dbVars
  <2>3. n = Len(events)
    BY <1>0, <2>2
  <2>4. written'[t] = events
    <3>1. SubSeq(events, 1, n) = events
      BY <2>2, <2>3, PrefixSet, Zenon
    <3> QED
      BY <1>0, <2>1, <2>2, <3>1, Zenon DEF Backfilled, Followed
  <2>5. Range(written'[t]) = Wanted(t)
    BY <2>2, <2>4, Zenon DEF Followed, Filled
  <2>6. i \in Stored => i \in Range(written'[t])
    BY <2>2, <2>5, Zenon DEF Wanted, Matching
  <2>7. ASSUME i <= lastBackfilledID'[t] PROVE i \in Stored
    <3>1. CASE n > 0
      <4>1. lastBackfilledID'[t] = events[n] /\ events[n] \in Wanted(t)
        <5>1. n \in DOMAIN events
          BY <2>2, <3>1
        <5> QED
          BY <1>0, <2>2, <2>3, <3>1, <5>1, Zenon DEF Range
      <4>2. events[n] \in Stored /\ events[n] \in Int /\ i \in Int
        BY <1>i, <4>1, IdsAreNat, Zenon DEF Wanted, Matching, Stored
      <4>3. CASE i = events[n]
        BY <4>2, <4>3, Zenon
      <4>4. CASE i < events[n]
        BY <1>i, <4>2, <4>4, Zenon DEF CommitsOK, PrefixStored, Stored
      <4> QED
        BY <2>7, <4>1, <4>2, <4>3, <4>4
    <3>2. CASE ~(n > 0)
      <4>1. lastBackfilledID'[t] = from[t] /\ from[t] \in Int /\ i \in Int
        BY <1>0, <1>i, <2>2, <3>2, IdsAreNat
      <4> QED
        BY <2>2, <2>7, <4>1
    <3> QED
      BY <3>1, <3>2, Zenon
  <2>8. i \notin Stored => ~Begun(i)'
    BY <1>i, <2>2, Zenon DEF Stored, Begun
  <2> QED
    BY <2>6, <2>7, <2>8, Zenon DEF Coming, Covered
<1>12. ASSUME Live(t) PROVE Coming(t, i)'
  <2>1. Taken(t)
    BY <1>12, LiveIs, Zenon
  <2>2. /\ pc[t] = "live" /\ ch[t] \in Seq(Ids) /\ ch[t] # <<>>
        /\ UNCHANGED <<subscribers, left, dropped, stage, pc, from, lastBackfilledID, open,
                       backfilled, failed>>
    BY <2>1, Zenon DEF Taken, dbVars, connVars, clientVars
  <2>3. Followed(t) /\ i > from[t]
    BY <2>2, Zenon DEF Followed, Filled
  <2>4. Coming(t, i) /\ t \in open
    BY <2>2, <2>3, Zenon DEF CommitsOK, Followed
  <2>5. /\ Range(ch[t]) = Range(Tail(ch[t])) \cup {Head(ch[t])} /\ Head(ch[t]) \in Ids
        /\ ch'[t] = Tail(ch[t])
    BY <1>0, <2>1, <2>2, TailSet DEF Taken
  <2>6. Begun(i)' <=> Begun(i)
    BY <2>2, Zenon DEF Begun
  <2>7. CASE Head(ch[t]) > lastBackfilledID[t]
    <3>1. written'[t] = Append(written[t], Head(ch[t]))
      BY <1>0, <2>1, <2>4, <2>7, Zenon DEF Taken
    <3>2. Range(written'[t]) = Range(written[t]) \cup {Head(ch[t])}
      BY <1>0, <2>5, <3>1, AppendSet, Zenon
    <3> QED
      BY <2>2, <2>4, <2>5, <2>6, <3>2, Zenon DEF Coming, Covered
  <2>8. CASE ~(Head(ch[t]) > lastBackfilledID[t])
    <3>1. written' = written
      BY <2>1, <2>8, Zenon DEF Taken
    <3>2. i = Head(ch[t]) => i \in Range(written[t])
      <4>1. Head(ch[t]) \in Int
        BY <2>5, IdsAreNat, Zenon
      <4>2. lastBackfilledID[t] \in Int
        BY <1>0, StreamAssumption
      <4> QED
        BY <2>4, <2>8, <4>1, <4>2 DEF Coming
    <3> QED
      BY <2>2, <2>4, <2>5, <2>6, <3>1, <3>2, Zenon DEF Coming, Covered
  <2> QED
    BY <2>7, <2>8, Zenon
<1>13. ASSUME ShutBrokers \/ StopAccepting \/ UNCHANGED vars PROVE Coming(t, i)'
  <2>1. /\ UNCHANGED <<stage, left, dropped, ch, connVars, clientVars, frames>>
        /\ t \in subscribers' => t \in subscribers
    BY <1>13, Zenon DEF ShutBrokers, B!Shutdown, B!loopVars, StopAccepting, vars, brokerVars, dbVars
  <2>2. Untouched(t)
    BY <2>1, EventUntouched, Zenon
  <2> QED
    BY <1>1, <2>1, <2>2, Zenon
<1>14. ASSUME NEW s \in Subs, Connect(s) \/ Handler(s) \/ ClientLeaves(s)
       PROVE  Coming(t, i)'
  BY <1>6, <1>7, <1>8, <1>9, <1>10, <1>11, <1>12, <1>14, Zenon DEF Handler
<1> QED
  BY <1>2, <1>3, <1>a, <1>4, <1>5, <1>13, <1>14, Zenon DEF Next

\* The inductive step, for all of them.
LEMMA CommitsStep ==
  ASSUME StreamOK, SafeInv, SentOK, CommitsOK, [Next]_vars, ordered' = ordered
  PROVE  CommitsOK'
  BY PrefixStep, ComingStep, Zenon DEF CommitsOK

\* Where transactions commit in the order of their ids, what a connection does
\* not find in its backfill reaches it through the broker.
THEOREM CommitsCorrect == Spec => []CommitsOK
<1>1. Init => CommitsOK
  BY Zenon DEF Init, CommitsOK, PrefixStored
<1>2. StreamOK /\ SafeInv /\ SentOK /\ CommitsOK /\ [Next]_vars => CommitsOK'
  BY CommitsStep, OrderedFixed, Zenon
<1> QED
  BY <1>1, <1>2, BrokerIsSafe, StreamCorrect, OnceCorrect, PTL DEF Spec

\* On a connection with nothing on its way, what is done is covered.
LEMMA QuietIsCovered ==
  ASSUME StreamOK, SentOK, CommitsOK, "commits" \in ordered,
         NEW s \in Subs, Quiet(s), Filled(s), NEW i \in Wants[s], stage[i] = "done", i > from[s]
  PROVE  i \in Covered(s)
<1>1. Followed(s) /\ pc[s] = "live" /\ s \in subscribers
  BY Zenon DEF Quiet, Followed
<1>2. Coming(s, i)
  BY <1>1, Zenon DEF CommitsOK
<1>3. i \notin Range(ch[s])
  BY DEF Quiet, Range
<1>4. Begun(i) /\ left[i] = {}
  BY StreamAssumption, Zenon DEF Quiet, SentOK, Begun
<1> QED
  BY <1>1, <1>2, <1>3, <1>4, Zenon DEF Coming

\* Where transactions commit in the order of their ids, no event is lost between
\* the backfill and the live loop.
THEOREM NoneLostInBetween == Spec => []NothingLostIfCommitsInOrder
<1>1. StreamOK /\ SentOK /\ CommitsOK => NothingLostIfCommitsInOrder
  BY QuietIsCovered, Zenon DEF NothingLostIfCommitsInOrder, NothingLostInBetween
<1> QED
  BY <1>1, StreamCorrect, OnceCorrect, CommitsCorrect, PTL

-----------------------------------------------------------------------------
(* Nothing is lost over the connections of a client *)

\* The steps of events and of the server leave connections and clients alone.
LEMMA EventsLeave ==
  ASSUME \/ \E i \in Ids : Commit(i) \/ BroadcastStarts(i) \/ BroadcastAgain(i)
         \/ \E b \in Senders : BroadcastEnds(b)
         \/ \E b \in Senders, i \in Ids, s \in Subs : BroadcastSends(b, i, s)
         \/ ShutBrokers \/ StopAccepting \/ UNCHANGED vars
  PROVE  UNCHANGED <<connVars, clientVars, frames>>
  BY Zenon DEF Commit, BroadcastStarts, BroadcastAgain, BroadcastEnds, BroadcastSends, ShutBrokers,
         StopAccepting, vars

\* A client has one connection open, and frames are above what it came with.
LEMMA OpenStep ==
  ASSUME StreamOK, SafeInv, OpenOK, [Next]_vars
  PROVE  OpenOK'
<1>0. /\ ch \in [Subs -> Seq(Ids)] /\ written \in [Subs -> Seq(Ids)]
      /\ pc \in [Subs -> {"new", "backfill", "live", "broken", "gone"}]
      /\ lastBackfilledID \in [Subs -> 0..MaxId] /\ from \in [Subs -> 0..MaxId]
      /\ lastEventID \in [Clients -> 0..MaxId] /\ open \subseteq Subs
      /\ \A s \in Subs : KeyOf[s] \in Clients /\ from[s] \in Int /\ lastBackfilledID[s] \in Int
  BY StreamAssumption DEF StreamOK, SafeInv, B!TypeOK
<1>1. ASSUME UNCHANGED <<connVars, clientVars, frames>> PROVE OpenOK'
  BY <1>1, Zenon DEF connVars, clientVars, frames, OpenOK
<1>2. ASSUME NEW s \in Subs, Connect(s) PROVE OpenOK'
  <2>1. /\ pc[s] = "new" /\ (\A t \in open : KeyOf[t] # KeyOf[s]) /\ open' = open \cup {s}
        /\ pc' = [pc EXCEPT ![s] = "backfill"]
        /\ from' = [from EXCEPT ![s] = lastEventID[KeyOf[s]]]
        /\ UNCHANGED <<lastBackfilledID, lastEventID, written>>
    BY <1>2, Zenon DEF Connect, Opens, frames
  <2>2. s \notin open /\ Range(written[s]) = {}
    BY <2>1 DEF StreamOK, Range
  <2>3. \A t \in Subs \ {s} : pc'[t] = pc[t] /\ from'[t] = from[t]
    BY <1>0, <2>1, Zenon
  <2>4. from'[s] = lastEventID[KeyOf[s]] /\ pc'[s] = "backfill"
    BY <1>0, <2>1, Zenon
  <2>5. \A t \in open' : from'[t] = lastEventID'[KeyOf[t]]
    BY <1>0, <2>1, <2>2, <2>3, <2>4, Zenon DEF OpenOK
  <2>6. \A t, u \in open' : KeyOf[t] = KeyOf[u] => t = u
    BY <2>1, Zenon DEF OpenOK
  <2>7. \A t \in Subs : pc'[t] = "live" => from'[t] <= lastBackfilledID'[t]
    BY <2>1, <2>3, <2>4, Zenon DEF OpenOK
  <2>8. \A t \in Subs : \A i \in Range(written'[t]) : i > from'[t]
    BY <2>1, <2>2, <2>3, Zenon DEF OpenOK
  <2> QED
    BY <2>5, <2>6, <2>7, <2>8, Zenon DEF OpenOK
<1>3. ASSUME NEW s \in Subs, Backfill(s) PROVE OpenOK'
  <2>1. PICK events, n : Backfilled(s, events, n)
    BY <1>3, BackfillIs, Zenon
  <2>2. /\ events \in Seq(Ids) /\ n \in 0..Len(events) /\ Range(events) \subseteq Wanted(s)
        /\ lastBackfilledID' = [lastBackfilledID EXCEPT ![s] =
                                  IF n > 0 /\ n = Len(events) THEN events[n] ELSE from[s]]
        /\ pc' = [pc EXCEPT ![s] = IF n < Len(events) THEN "broken" ELSE "live"]
        /\ \/ written' = written
           \/ written' = [written EXCEPT ![s] = SubSeq(events, 1, n)]
        /\ UNCHANGED <<from, open, lastEventID>>
    BY <2>1, Zenon DEF Backfilled, clientVars
  <2>3. \A i \in Range(events) : i > from[s] /\ i \in Int
    BY <2>2, IdsAreNat, Zenon DEF Wanted, Matching, Stored
  <2>4. from[s] <= lastBackfilledID'[s]
    <3>1. n > 0 => events[n] \in Range(events)
      BY <2>2, PrefixSet, Zenon
    <3> QED
      BY <1>0, <2>2, <2>3, <3>1
  <2>5. \A t \in Subs \ {s} : /\ pc'[t] = pc[t] /\ lastBackfilledID'[t] = lastBackfilledID[t]
                              /\ written'[t] = written[t]
    BY <1>0, <2>2, Zenon
  <2>6. \A i \in Range(written'[s]) : i > from[s]
    <3>1. Range(SubSeq(events, 1, n)) \subseteq Range(events)
      BY <2>2, PrefixSet, Zenon
    <3> QED
      BY <1>0, <2>2, <2>3, <3>1, Zenon DEF OpenOK
  <2> QED
    BY <2>2, <2>4, <2>5, <2>6, Zenon DEF OpenOK
<1>4. ASSUME NEW s \in Subs, BackfillFails(s) PROVE OpenOK'
  <2>1. /\ lastBackfilledID' = [lastBackfilledID EXCEPT ![s] = from[s]]
        /\ pc' = [pc EXCEPT ![s] = "live"] /\ UNCHANGED <<from, open, lastEventID, written>>
    BY <1>4, Zenon DEF BackfillFails, clientVars
  <2>2. \A t \in Subs : pc'[t] = "live" => from[t] <= lastBackfilledID'[t]
    BY <1>0, <2>1 DEF OpenOK
  <2> QED
    BY <2>1, <2>2, Zenon DEF OpenOK
<1>5. ASSUME NEW s \in Subs, Live(s) PROVE OpenOK'
  <2>1. /\ pc[s] = "live" /\ ch[s] \in Seq(Ids) /\ ch[s] # <<>>
        /\ \/ written' = written
           \/ /\ Head(ch[s]) > lastBackfilledID[s]
              /\ written' = [written EXCEPT ![s] = Append(@, Head(ch[s]))]
        /\ UNCHANGED <<connVars, clientVars>>
    BY <1>5, LiveIs, Zenon DEF Taken
  <2>2. Head(ch[s]) \in Ids /\ Head(ch[s]) \in Int
    BY <2>1, TailSet, IdsAreNat, Zenon
  <2>3. Head(ch[s]) > lastBackfilledID[s] => Head(ch[s]) > from[s]
    BY <1>0, <2>1, <2>2 DEF OpenOK
  <2>4. \A t \in Subs : \A i \in Range(written'[t]) : i > from[t]
    <3>1. CASE written' = written
      BY <3>1, Zenon DEF OpenOK
    <3>2. CASE /\ Head(ch[s]) > lastBackfilledID[s]
               /\ written' = [written EXCEPT ![s] = Append(@, Head(ch[s]))]
      <4>1. \A t \in Subs : /\ t # s => written'[t] = written[t]
                            /\ t = s => Range(written'[t]) = Range(written[t]) \cup {Head(ch[s])}
        BY <1>0, <2>2, <3>2, AppendSet, Zenon
      <4> QED
        BY <2>3, <3>2, <4>1 DEF OpenOK
    <3> QED
      BY <2>1, <3>1, <3>2, Zenon
  <2> QED
    BY <2>1, <2>4, Zenon DEF OpenOK, connVars, clientVars
<1>6. ASSUME NEW s \in Subs, ChannelClosed(s) \/ WriteFails(s) \/ Disconnected(s)
      PROVE  OpenOK'
  <2>1. pc' = [pc EXCEPT ![s] = "gone"]
        /\ UNCHANGED <<from, lastBackfilledID, clientVars, frames>>
    BY <1>6, ReturnIs, Zenon
  <2>2. \A t \in Subs : pc'[t] = "live" => pc[t] = "live"
    BY <1>0, <2>1, Zenon
  <2> QED
    BY <2>1, <2>2, Zenon DEF OpenOK, clientVars, frames
<1>7. ASSUME NEW s \in Subs, ClientLeaves(s) PROVE OpenOK'
  <2>1. PICK n : Left(s, n)
    BY <1>7, LeaveIs, Zenon
  <2>2. /\ s \in open /\ open' = open \ {s} /\ n \in 0..Len(written[s])
        /\ written' = [written EXCEPT ![s] = SubSeq(@, 1, n)]
        /\ \/ lastEventID' = lastEventID
           \/ lastEventID' = [lastEventID EXCEPT ![KeyOf[s]] = written[s][n]]
        /\ UNCHANGED connVars
    BY <2>1, Zenon DEF Left
  <2>3. \A t \in open' : lastEventID'[KeyOf[t]] = lastEventID[KeyOf[t]]
    BY <1>0, <2>2 DEF OpenOK
  <2>4. \A t \in Subs : Range(written'[t]) \subseteq Range(written[t])
    BY <1>0, <2>2, PrefixSet
  <2> QED
    BY <2>2, <2>3, <2>4, Zenon DEF OpenOK, connVars
<1> QED
  BY <1>1, <1>2, <1>3, <1>4, <1>5, <1>6, <1>7, EventsLeave, Zenon DEF Next, Handler

\* Where all is in order, an event's first broadcast waits for those below it.
LEMMA OrderStep ==
  ASSUME StreamOK, SafeInv, SentOK, OrderOK, AllOrdered, [Next]_vars
  PROVE  OrderOK'
<1>0. stage \in [Ids -> {"none", "committed", "broadcast", "done"}]
  BY Zenon DEF StreamOK
<1>o. "broadcasts" \in ordered
  BY Zenon DEF AllOrdered
<1>a. \A i, j \in Ids : j < i /\ Begun(i) => stage[j] = "done"
  BY Zenon DEF OrderOK
<1>1. ASSUME NEW k \in Ids, Commit(k) PROVE OrderOK'
  <2>1. stage[k] = "none" /\ stage' = [stage EXCEPT ![k] = "committed"]
    BY <1>1, CommitIs, Zenon
  <2> QED
    BY <1>0, <1>a, <2>1, Zenon DEF OrderOK, Begun
<1>2. ASSUME NEW k \in Ids, BroadcastStarts(k) PROVE OrderOK'
  <2>1. /\ stage[k] = "committed" /\ stage' = [stage EXCEPT ![k] = "broadcast"]
        /\ \A j \in Ids : j < k => stage[j] = "done"
    BY <1>2, <1>o, StartIs, Zenon
  <2> SUFFICES ASSUME NEW i \in Ids, NEW j \in Ids, j < i, Begun(i)'
               PROVE  stage'[j] = "done"
    BY Zenon DEF OrderOK
  <2>2. stage[j] = "done"
    <3>1. CASE i = k
      BY <2>1, <3>1, Zenon
    <3>2. CASE i # k
      BY <1>0, <1>a, <2>1, <3>2, Zenon DEF Begun
    <3> QED
      BY <3>1, <3>2, Zenon
  <2> QED
    BY <1>0, <2>1, <2>2, Zenon
<1>3. ASSUME NEW k \in Ids, BroadcastEnds(k) PROVE OrderOK'
  <2>1. stage[k] = "broadcast" /\ stage' = [stage EXCEPT ![k] = "done"]
    BY <1>3, EndIs, SendersAre, Zenon DEF SentOK
  <2> QED
    BY <1>0, <1>a, <2>1, Zenon DEF OrderOK, Begun
<1>4. ASSUME UNCHANGED stage PROVE OrderOK'
  BY <1>a, <1>4, Zenon DEF OrderOK, Begun
<1> QED
  BY <1>1, <1>2, <1>3, <1>4, StageMoves, Zenon

\* Where all is in order, a connection keeps getting events without a gap.
LEMMA GapsStep ==
  ASSUME StreamOK, SafeInv, SentOK, CommitsOK, OrderOK, GapsOK, AllOrdered, [Next]_vars,
         NEW t \in Subs, Followed(t)'
  PROVE  NoGaps(t)'
<1>0. /\ stage \in [Ids -> {"none", "committed", "broadcast", "done"}]
      /\ ch \in [Subs -> Seq(Ids)] /\ written \in [Subs -> Seq(Ids)]
      /\ left \in [Senders -> SUBSET (Subs \X Ids)] /\ dropped \in [Subs -> SUBSET Ids]
      /\ pc \in [Subs -> {"new", "backfill", "live", "broken", "gone"}]
      /\ lastBackfilledID \in [Subs -> 0..MaxId] /\ from \in [Subs -> 0..MaxId]
  BY Zenon DEF StreamOK, SafeInv, B!TypeOK
<1>o. "commits" \in ordered /\ "stamps" \in ordered
  BY Zenon DEF AllOrdered
<1>s. /\ Range(ch[t]) \subseteq Ids /\ Range(written[t]) \subseteq Ids
      /\ from[t] \in Int /\ lastBackfilledID[t] \in Int /\ Ids \subseteq Int
  BY <1>0, StreamAssumption, IdsAreNat DEF Range
<1>w. Wants[t] \subseteq Ids
  BY StreamAssumption, Zenon
<1>f. ASSUME Followed(t) PROVE NoGaps(t)
  BY <1>f, Zenon DEF GapsOK
<1>u. ASSUME Untouched(t), ch'[t] = ch[t], dropped[t] \subseteq dropped'[t]
      PROVE  NoGaps(t)'
  <2>1. NoGaps(t)
    BY <1>f, <1>u, UntouchedIs, Zenon
  <2> QED
    BY <1>u, <2>1, Zenon DEF NoGaps, Covered, Untouched
<1>1. ASSUME \/ \E k \in Ids : Commit(k) \/ BroadcastStarts(k) \/ BroadcastAgain(k)
             \/ \E b \in Senders : BroadcastEnds(b)
      PROVE  NoGaps(t)'
  <2>1. UNCHANGED <<ch, dropped, connVars, clientVars, frames>>
    BY <1>1, CommitIs, StartIs, AgainIs, EndIs, Zenon
  <2> QED
    BY <1>u, <2>1, EventUntouched, Zenon
<1>2. ASSUME NEW b \in Senders, NEW k \in Ids, NEW u \in Subs, BroadcastSends(b, k, u)
      PROVE  NoGaps(t)'
  <2>1. /\ <<u, k>> \in left[b]
        /\ \/ UNCHANGED <<ch, dropped>>
           \/ ch' = [ch EXCEPT ![u] = Append(@, k)] /\ dropped' = dropped
           \/ dropped' = [dropped EXCEPT ![u] = @ \cup {k}] /\ ch' = ch
        /\ Untouched(t)
    BY <1>2, SendIs, EventUntouched, Zenon
  <2>2. CASE ch'[t] = ch[t]
    <3>1. dropped[t] \subseteq dropped'[t]
      BY <1>0, <2>1, Zenon
    <3> QED
      BY <1>u, <2>1, <2>2, <3>1, Zenon
  <2>3. CASE t = u /\ ch'[t] = Append(ch[t], k) /\ dropped' = dropped
    <3>1. Followed(t) /\ NoGaps(t)
      BY <1>f, <2>1, UntouchedIs, Zenon
    <3>2. \A n \in DOMAIN ch'[t] :
            \/ /\ n \in DOMAIN ch[t] /\ ch'[t][n] = ch[t][n]
               /\ FirstOf(ch'[t], n) = FirstOf(ch[t], n)
            \/ ch'[t][n] = k /\ Range(ch[t]) \subseteq FirstOf(ch'[t], n)
      <4>1. ch[t] \in Seq(Ids) /\ ch'[t] = Append(ch[t], k)
        BY <1>0, <2>3, Zenon
      <4> QED
        BY <4>1, AppendPlaces, Zenon
    <3>3. ASSUME pc[t] = "live", NEW i \in Wants[t], from[t] < i, i < k
          PROVE  i \in Covered(t) \cup Range(ch[t])
      <4>1. t \in subscribers
        BY <2>1, <2>3, Zenon DEF SafeInv, B!SendsAreSafe
      <4>2. Begun(k)
        BY <2>1, SentBy, Zenon
      <4>3. stage[i] = "done"
        BY <1>w, <3>3, <4>2, Zenon DEF OrderOK
      <4>4. left[i] = {}
        BY <1>w, <4>3, Zenon DEF SentOK
      <4>5. Coming(t, i)
        <5>1. i > from[t]
          BY <1>s, <1>w, <3>3, Zenon
        <5> QED
          BY <1>o, <3>1, <3>3, <5>1, Zenon DEF CommitsOK
      <4> QED
        BY <4>1, <4>3, <4>4, <4>5, Zenon DEF Coming, Begun
    <3>4. /\ Covered(t)' = Covered(t) /\ dropped'[t] = dropped[t]
          /\ written'[t] = written[t] /\ pc'[t] = pc[t] /\ from'[t] = from[t]
      BY <2>1, <2>3, Zenon DEF Covered, Untouched
    <3>5. ASSUME pc[t] = "live", NEW n \in DOMAIN ch'[t], NEW i \in Wants[t],
                 from[t] < i, i < ch'[t][n]
          PROVE  i \in Covered(t) \cup FirstOf(ch'[t], n)
      <4>1. CASE /\ n \in DOMAIN ch[t] /\ ch'[t][n] = ch[t][n]
                 /\ FirstOf(ch'[t], n) = FirstOf(ch[t], n)
        BY <3>1, <3>5, <4>1, Zenon DEF NoGaps
      <4>2. CASE ch'[t][n] = k /\ Range(ch[t]) \subseteq FirstOf(ch'[t], n)
        BY <3>3, <3>5, <4>2, Zenon
      <4> QED
        BY <3>2, <3>5, <4>1, <4>2, Zenon
    <3> QED
      BY <3>1, <3>4, <3>5, Zenon DEF NoGaps
  <2> QED
    BY <1>0, <2>1, <2>2, <2>3, Zenon
<1>3. ASSUME NEW s \in Subs, s # t, Connect(s) \/ Handler(s) \/ ClientLeaves(s)
      PROVE  NoGaps(t)'
  <2>1. Untouched(t) /\ ch'[t] = ch[t] /\ dropped' = dropped
    BY <1>3, OthersUntouched DEF Handler
  <2> QED
    BY <1>u, <2>1, Zenon
<1>4. ASSUME Connect(t) PROVE FALSE
  <2>1. pc' = [pc EXCEPT ![t] = "backfill"]
    BY <1>4, Zenon DEF Connect, Opens
  <2> QED
    BY <1>0, <2>1, Zenon DEF Followed
<1>5. ASSUME ClientLeaves(t) PROVE FALSE
  BY <1>5, Zenon DEF ClientLeaves, Followed
<1>6. ASSUME BackfillFails(t) PROVE FALSE
  <2>1. failed' = [failed EXCEPT ![t] = TRUE] /\ failed \in [Subs -> BOOLEAN]
    BY <1>6, Zenon DEF BackfillFails, StreamOK
  <2> QED
    BY <2>1, Zenon DEF Followed, Filled
<1>7. ASSUME ChannelClosed(t) \/ WriteFails(t) \/ Disconnected(t) PROVE NoGaps(t)'
  <2>1. /\ pc[t] \in {"live", "broken"} /\ pc' = [pc EXCEPT ![t] = "gone"]
        /\ UNCHANGED <<dropped, from, clientVars, frames>>
    BY <1>7, ReturnIs, Zenon
  <2>2. Followed(t) /\ pc'[t] = "gone"
    BY <1>0, <2>1 DEF Followed, Filled, clientVars, frames
  <2>3. NoGaps(t)
    BY <1>f, <2>2, Zenon
  <2> QED
    BY <2>1, <2>2, <2>3 DEF NoGaps, Covered, frames
<1>8. ASSUME Backfill(t) PROVE NoGaps(t)'
  <2>1. PICK events, n : Backfilled(t, events, n)
    BY <1>8, BackfillIs, Zenon
  <2>2. /\ events \in Seq(Ids) /\ n \in 0..Len(events) /\ Increasing(events)
        /\ Len(events) < sseBackfillLimit => Range(events) = Wanted(t)
        /\ pc' = [pc EXCEPT ![t] = IF n < Len(events) THEN "broken" ELSE "live"]
        /\ backfilled'[t] = Len(events)
        /\ UNCHANGED <<from, open, ch>>
    BY <1>o, <2>1, Zenon DEF Backfilled, StreamOK, clientVars, brokerVars
  <2> DEFINE p == SubSeq(events, 1, n)
  <2>3. written'[t] = p
    BY <1>0, <2>1, <2>2, Zenon DEF Backfilled, Followed
  <2>4. Range(events) = Wanted(t)
    BY <2>2 DEF Followed, Filled
  <2>5. /\ Range(p) \subseteq Range(events)
        /\ n = Len(events) => p = events
        /\ \A k \in DOMAIN p : /\ k \in DOMAIN events /\ p[k] = events[k]
                               /\ FirstOf(p, k) = FirstOf(events, k)
    BY <2>2, PrefixSet, Zenon
  <2>6. ASSUME NEW w \in Ids, w \in Stored, NEW i \in Wants[t], from[t] < i, i < w
        PROVE  i \in Range(events)
    <3>1. i \in Stored
      BY <1>o, <1>w, <2>6, Zenon DEF CommitsOK, PrefixStored, Stored
    <3>2. i > from[t]
      BY <1>s, <1>w, <2>6, Zenon
    <3> QED
      BY <2>4, <3>1, <3>2, Zenon DEF Wanted, Matching
  <2>7. ASSUME NEW k \in DOMAIN p, NEW i \in Wants[t], from[t] < i, i < p[k]
        PROVE  i \in FirstOf(p, k)
    <3>1. /\ k \in DOMAIN events /\ p[k] = events[k] /\ FirstOf(p, k) = FirstOf(events, k)
          /\ events[k] \in Range(events)
      BY <2>5, Zenon DEF Range
    <3>2. events[k] \in Stored /\ events[k] \in Ids
      BY <2>4, <3>1, Zenon DEF Wanted, Matching, Stored
    <3>3. i \in Range(events)
      BY <2>6, <2>7, <3>1, <3>2, Zenon
    <3> QED
      BY <2>2, <2>7, <3>1, <3>3, BelowComesFirst, Zenon
  <2>8. ASSUME pc'[t] = "live", NEW k \in DOMAIN ch[t], NEW i \in Wants[t], from[t] < i,
               i < ch[t][k]
        PROVE  i \in Range(p)
    <3>1. n = Len(events)
      BY <1>0, <2>2, <2>8
    <3>2. ch[t][k] \in Ids /\ ch[t][k] \in Stored
      <4>1. ch[t][k] \in Range(ch[t])
        BY <2>8, Zenon DEF Range
      <4> QED
        BY <1>s, <4>1, Zenon DEF SentOK, Begun, Stored
    <3> QED
      BY <2>5, <2>6, <2>8, <3>1, <3>2, Zenon
  <2> HIDE DEF p
  <2> QED
    BY <2>2, <2>3, <2>7, <2>8, Zenon DEF NoGaps, Covered
<1>9. ASSUME Live(t) PROVE NoGaps(t)'
  <2>1. Taken(t)
    BY <1>9, LiveIs, Zenon
  <2>2. /\ pc[t] = "live" /\ ch[t] \in Seq(Ids) /\ ch[t] # <<>>
        /\ UNCHANGED <<dropped, pc, from, lastBackfilledID, open, backfilled, failed>>
    BY <2>1, Zenon DEF Taken, connVars, clientVars
  <2>3. Followed(t) /\ t \in open
    BY <2>2, Zenon DEF Followed, Filled
  <2>4. NoGaps(t)
    BY <1>f, <2>3, Zenon
  <2> DEFINE h == Head(ch[t])
  <2>5. h \in Ids /\ h \in Int /\ ch'[t] = Tail(ch[t])
    BY <1>0, <1>s, <2>1, <2>2, TailSet, Zenon DEF Taken
  <2>6. /\ 1 \in DOMAIN ch[t] /\ ch[t][1] = h /\ FirstOf(ch[t], 1) = {h}
        /\ \A n \in DOMAIN ch'[t] :
             \E m \in DOMAIN ch[t] : /\ ch'[t][n] = ch[t][m]
                                     /\ FirstOf(ch[t], m) = FirstOf(ch'[t], n) \cup {h}
    <3>1. \A n \in DOMAIN Tail(ch[t]) :
            \E m \in DOMAIN ch[t] : /\ Tail(ch[t])[n] = ch[t][m]
                                    /\ FirstOf(ch[t], m) = FirstOf(Tail(ch[t]), n) \cup {h}
      BY <2>2, TailPlaces, Zenon
    <3>2. 1 \in DOMAIN ch[t] /\ ch[t][1] = h /\ FirstOf(ch[t], 1) = {h}
      BY <2>2, TailPlaces, Zenon
    <3> HIDE DEF h
    <3> QED
      BY <2>5, <3>1, <3>2, Zenon
  <2>7. ASSUME NEW i \in Wants[t], from[t] < i, i < h PROVE i \in Covered(t)
    <3>1. i \in Covered(t) \cup {h}
      BY <2>2, <2>4, <2>6, <2>7, Zenon DEF NoGaps
    <3>2. i # h
      BY <2>5, <2>7
    <3> QED
      BY <3>1, <3>2, Zenon
  <2>8. ASSUME NEW n \in DOMAIN ch'[t], NEW i \in Wants[t], from[t] < i, i < ch'[t][n]
        PROVE  i \in Covered(t) \cup FirstOf(ch'[t], n) \cup {h}
    <3>1. PICK m \in DOMAIN ch[t] : /\ ch'[t][n] = ch[t][m]
                                    /\ FirstOf(ch[t], m) = FirstOf(ch'[t], n) \cup {h}
      BY <2>6, <2>8, Zenon
    <3> QED
      BY <2>2, <2>4, <2>8, <3>1, Zenon DEF NoGaps
  <2>9. CASE h > lastBackfilledID[t]
    <3>1. written'[t] = Append(written[t], h)
      BY <1>0, <2>1, <2>3, <2>9, Zenon DEF Taken
    <3>2. \A n \in DOMAIN written'[t] :
            \/ /\ n \in DOMAIN written[t] /\ written'[t][n] = written[t][n]
               /\ FirstOf(written'[t], n) = FirstOf(written[t], n)
            \/ written'[t][n] = h /\ Range(written[t]) \subseteq FirstOf(written'[t], n)
      BY <1>0, <2>5, <3>1, AppendPlaces, Zenon
    <3>3. Covered(t)' = Covered(t) \cup {h}
      <4>1. Range(written'[t]) = Range(written[t]) \cup {h}
        BY <1>0, <2>5, <3>1, AppendSet, Zenon
      <4> QED
        BY <2>2, <4>1, Zenon DEF Covered
    <3> HIDE DEF h
    <3>4. ASSUME NEW n \in DOMAIN written'[t], NEW i \in Wants[t],
                 from[t] < i, i < written'[t][n]
          PROVE  i \in dropped[t] \cup FirstOf(written'[t], n)
      <4>1. CASE /\ n \in DOMAIN written[t] /\ written'[t][n] = written[t][n]
                 /\ FirstOf(written'[t], n) = FirstOf(written[t], n)
        BY <2>4, <3>4, <4>1, Zenon DEF NoGaps
      <4>2. CASE written'[t][n] = h /\ Range(written[t]) \subseteq FirstOf(written'[t], n)
        BY <2>7, <3>4, <4>2, Zenon DEF Covered
      <4> QED
        BY <3>2, <3>4, <4>1, <4>2, Zenon
    <3> QED
      BY <2>2, <2>8, <3>3, <3>4, Zenon DEF NoGaps
  <2>10. CASE ~(h > lastBackfilledID[t])
    <3>1. written' = written
      BY <2>1, <2>10, Zenon DEF Taken
    <3>2. Covered(t)' = Covered(t)
      BY <2>2, <3>1, Zenon DEF Covered
    <3>3. from[t] < h /\ h \in Wants[t] => h \in Covered(t)
      <4>1. h \in Int /\ lastBackfilledID[t] \in Int /\ from[t] \in Int
        BY <1>s, <2>5, Zenon
      <4>2. from[t] < h /\ h \in Wants[t] => Coming(t, h)
        BY <1>o, <2>2, <2>3, <2>5, <4>1, Zenon DEF CommitsOK
      <4> QED
        BY <2>10, <4>1, <4>2 DEF Coming, Covered
    <3> HIDE DEF h
    <3> QED
      BY <2>2, <2>4, <2>8, <3>1, <3>2, <3>3, Zenon DEF NoGaps
  <2> QED
    BY <2>9, <2>10, Zenon
<1>10. ASSUME ShutBrokers \/ StopAccepting \/ UNCHANGED vars PROVE NoGaps(t)'
  <2>1. UNCHANGED <<dropped, ch, connVars, clientVars, frames>>
    BY <1>10, Zenon DEF ShutBrokers, B!Shutdown, B!loopVars, StopAccepting, vars, brokerVars
  <2> QED
    BY <1>u, <2>1, EventUntouched, Zenon
<1>11. ASSUME NEW s \in Subs, Connect(s) \/ Handler(s) \/ ClientLeaves(s)
       PROVE  NoGaps(t)'
  BY <1>3, <1>4, <1>5, <1>6, <1>7, <1>8, <1>9, <1>11, Zenon DEF Handler
<1> QED
  BY <1>1, <1>2, <1>10, <1>11, Zenon DEF Next

\* Until its client leaves, a connection keeps what it covered, and one whose
\* backfill left nothing out had left nothing out before.
LEMMA CoveredGrows ==
  ASSUME StreamOK, SafeInv, [Next]_vars, \A s \in Subs : ~ClientLeaves(s), NEW t \in Subs
  PROVE  /\ Covered(t) \subseteq Covered(t)' /\ lastEventID' = lastEventID
         /\ Filled(t)' => Filled(t)
<1> DEFINE Grows == /\ Covered(t) \subseteq Covered(t)' /\ lastEventID' = lastEventID
                    /\ Filled(t)' => Filled(t)
<1>0. /\ ch \in [Subs -> Seq(Ids)] /\ written \in [Subs -> Seq(Ids)]
      /\ dropped \in [Subs -> SUBSET Ids]
      /\ failed \in [Subs -> BOOLEAN]
  BY Zenon DEF StreamOK, SafeInv, B!TypeOK
<1>1. ASSUME Untouched(t), dropped[t] \subseteq dropped'[t], lastEventID' = lastEventID
      PROVE  Grows
  BY <1>1, UntouchedIs DEF Untouched, Covered
<1>2. ASSUME \/ \E k \in Ids : Commit(k) \/ BroadcastStarts(k) \/ BroadcastAgain(k)
             \/ \E b \in Senders : BroadcastEnds(b)
      PROVE  Grows
  <2>1. UNCHANGED <<dropped, connVars, clientVars, frames>>
    BY <1>2, CommitIs, StartIs, AgainIs, EndIs, Zenon
  <2> QED
    BY <1>1, <2>1, EventUntouched DEF clientVars
<1>3. ASSUME NEW b \in Senders, NEW k \in Ids, NEW u \in Subs, BroadcastSends(b, k, u)
      PROVE  Grows
  <2>1. /\ dropped' = dropped \/ dropped' = [dropped EXCEPT ![u] = @ \cup {k}]
        /\ UNCHANGED <<connVars, clientVars, frames>>
    BY <1>3, SendIs, Zenon
  <2>2. dropped[t] \subseteq dropped'[t]
    BY <1>0, <2>1, Zenon
  <2> QED
    BY <1>1, <2>1, <2>2, EventUntouched, Zenon DEF clientVars
<1>4. ASSUME NEW s \in Subs, Connect(s) \/ Handler(s) PROVE lastEventID' = lastEventID
  BY <1>4, Zenon
  DEF Connect, Opens, Handler, Backfill, BackfillOf, BackfillFails, Live, ChannelClosed,
      WriteFails, Disconnected, Return, clientVars
<1>5. ASSUME NEW s \in Subs, s # t, Connect(s) \/ Handler(s) PROVE Grows
  <2>1. Untouched(t) /\ dropped' = dropped
    BY <1>5, OthersUntouched, Zenon DEF Handler
  <2> QED
    BY <1>1, <1>4, <1>5, <2>1, Zenon
<1>6. ASSUME Connect(t) \/ ChannelClosed(t) \/ WriteFails(t) \/ Disconnected(t) PROVE Grows
  <2>1. UNCHANGED <<dropped, frames>>
    BY <1>6, ReturnIs, Zenon DEF Connect, Opens, B!Subscribe, B!loopVars
  <2>2. lastEventID' = lastEventID
    BY <1>4, <1>6, Zenon DEF Handler
  <2> QED
    BY <2>1, <2>2, Zenon DEF frames, Covered, Filled
<1>7. ASSUME Backfill(t) PROVE Grows
  <2>1. PICK events, n : Backfilled(t, events, n)
    BY <1>7, BackfillIs, Zenon
  <2>2. pc[t] = "backfill" /\ dropped' = dropped
    BY <2>1, Zenon DEF Backfilled, brokerVars
  <2>3. Range(written[t]) = {} /\ backfilled[t] = 0 /\ ~failed[t]
    BY <2>2 DEF StreamOK, Range
  <2>4. Filled(t)
    BY <2>3, StreamAssumption DEF Filled
  <2>5. lastEventID' = lastEventID
    BY <1>4, <1>7, Zenon DEF Handler
  <2> QED
    BY <2>2, <2>3, <2>4, <2>5, Zenon DEF Covered
<1>8. ASSUME BackfillFails(t) PROVE Grows
  <2>1. /\ failed' = [failed EXCEPT ![t] = TRUE] /\ UNCHANGED <<dropped, written>>
    BY <1>8, Zenon DEF BackfillFails, brokerVars
  <2>2. ~Filled(t)'
    BY <1>0, <2>1, Zenon DEF Filled
  <2>3. lastEventID' = lastEventID
    BY <1>4, <1>8, Zenon DEF Handler
  <2> QED
    BY <2>1, <2>2, <2>3, Zenon DEF Covered
<1>9. ASSUME Live(t) PROVE Grows
  <2>1. /\ ch[t] \in Seq(Ids) /\ ch[t] # <<>>
        /\ \/ written' = written
           \/ written' = [written EXCEPT ![t] = Append(@, Head(ch[t]))]
        /\ UNCHANGED <<dropped, backfilled, failed>>
    BY <1>9, LiveIs, Zenon DEF Taken
  <2>2. Range(written[t]) \subseteq Range(written'[t])
    <3>1. Head(ch[t]) \in Ids
      BY <2>1, TailSet, Zenon
    <3>2. Range(Append(written[t], Head(ch[t]))) = Range(written[t]) \cup {Head(ch[t])}
      BY <1>0, <3>1, AppendSet, Zenon
    <3>3. \/ written'[t] = written[t]
          \/ written'[t] = Append(written[t], Head(ch[t]))
      BY <1>0, <2>1, Zenon
    <3> QED
      BY <3>2, <3>3, Zenon
  <2>3. lastEventID' = lastEventID
    BY <1>4, <1>9, Zenon DEF Handler
  <2> QED
    BY <2>1, <2>2, <2>3, Zenon DEF Covered, Filled
<1>10. ASSUME ShutBrokers \/ StopAccepting \/ UNCHANGED vars PROVE Grows
  <2>1. UNCHANGED <<dropped, connVars, clientVars, frames>>
    BY <1>10, Zenon DEF ShutBrokers, B!Shutdown, B!loopVars, StopAccepting, vars, brokerVars
  <2> QED
    BY <1>1, <2>1, EventUntouched, Zenon DEF clientVars
<1>11. ASSUME NEW s \in Subs, Connect(s) \/ Handler(s) PROVE Grows
  BY <1>5, <1>6, <1>7, <1>8, <1>9, <1>11, Zenon DEF Handler
<1> QED
  BY <1>2, <1>3, <1>10, <1>11, Zenon DEF Next

\* A client leaves no gap below what it will resume from: what it got on earlier
\* connections is below what this one was opened with, and this one has no gap.
LEMMA ResumedStep ==
  ASSUME StreamOK, SafeInv, OpenOK, GapsOK, ResumedOK, AllOrdered, [Next]_vars,
         NEW c \in Clients, \A s \in Mine(c) : Filled(s)',
         NEW i \in WantedBy(c), i <= lastEventID'[c]
  PROVE  i \in CoveredFor(c)'
<1>0. /\ written \in [Subs -> Seq(Ids)] /\ lastEventID \in [Clients -> 0..MaxId]
      /\ from \in [Subs -> 0..MaxId]
      /\ \A s \in Subs : KeyOf[s] \in Clients /\ from[s] \in Int
      /\ i \in Ids /\ i \in Int /\ Mine(c)' = Mine(c)
  BY StreamAssumption, IdsAreNat DEF StreamOK, Mine, WantedBy
<1>1. CASE \A s \in Subs : ~ClientLeaves(s)
  <2>1. \A s \in Subs : Covered(s) \subseteq Covered(s)' /\ (Filled(s)' => Filled(s))
    BY <1>1, CoveredGrows, Zenon
  <2>2. lastEventID' = lastEventID
    BY <1>1, EventsLeave, CoveredGrows, Zenon DEF Next, clientVars
  <2>3. i \in CoveredFor(c)
    BY <2>1, <2>2, Zenon DEF ResumedOK, Mine
  <2>4. PICK s \in Mine(c) : i \in Covered(s)
    BY <2>3, Zenon DEF CoveredFor
  <2>5. i \in Covered(s)'
    BY <2>1, <2>4, Zenon DEF Mine
  <2> QED
    BY <1>0, <2>5, Zenon DEF CoveredFor
<1>2. ASSUME NEW s \in Subs, ClientLeaves(s) PROVE i \in CoveredFor(c)'
  <2>1. PICK n : Left(s, n)
    BY <1>2, LeaveIs, Zenon
  <2>2. /\ s \in open /\ n \in 0..Len(written[s])
        /\ written' = [written EXCEPT ![s] = SubSeq(@, 1, n)]
        /\ lastEventID' = IF n = 0 THEN lastEventID
                          ELSE [lastEventID EXCEPT ![KeyOf[s]] = written[s][n]]
        /\ UNCHANGED <<dropped, pc, from, backfilled, failed>>
    BY <2>1, Zenon DEF Left, brokerVars, connVars
  <2> DEFINE p == SubSeq(written[s], 1, n)
  <2>3. /\ n > 0 => /\ n \in DOMAIN written[s]
                    /\ written[s][n] \in Range(p) /\ written[s][n] \in Ids
        /\ Range(p) \subseteq Range(written[s]) /\ Range(p) = FirstOf(written[s], n)
    BY <1>0, <2>2, PrefixSet, Zenon
  <2>4. \A t \in Subs : /\ Filled(t)' <=> Filled(t)
                        /\ t # s => Covered(t)' = Covered(t)
                        /\ t = s => Covered(t)' = Range(p) \cup dropped[t]
    BY <1>0, <2>2 DEF Filled, Covered
  <2>5. i <= lastEventID[c] => i \in CoveredFor(c)
    BY <2>4, Zenon DEF ResumedOK, Mine
  <2>6. ASSUME i <= lastEventID[c] PROVE i \in CoveredFor(c)'
    <3>1. PICK t \in Mine(c) : i \in Covered(t)
      BY <2>5, <2>6, Zenon DEF CoveredFor
    <3>2. CASE t # s
      <4>1. i \in Covered(t)'
        BY <2>4, <3>1, <3>2, Zenon DEF Mine
      <4> QED
        BY <1>0, <4>1, Zenon DEF CoveredFor
    <3>3. CASE t = s
      <4>1. from[s] = lastEventID[c] /\ s \in Mine(c)
        BY <2>2, <3>1, <3>3 DEF Mine, OpenOK
      <4>2. i \notin Range(written[s])
        <5>1. ~(i > from[s])
          BY <1>0, <2>6, <4>1
        <5> QED
          BY <5>1 DEF OpenOK
      <4>3. i \in Covered(s)'
        BY <2>4, <3>1, <3>3, <4>2, Zenon DEF Covered
      <4> QED
        BY <1>0, <4>1, <4>3, Zenon DEF CoveredFor
    <3> QED
      BY <3>2, <3>3, Zenon
  <2>7. ASSUME ~(i <= lastEventID[c]) PROVE i \in CoveredFor(c)'
    <3>1. n > 0 /\ KeyOf[s] = c /\ lastEventID'[c] = written[s][n] /\ s \in Mine(c)
      BY <1>0, <2>2, <2>7 DEF Mine
    <3>2. Followed(s)
      <4>1. pc[s] \notin {"new", "backfill"}
        <5>1. written[s] # <<>>
          BY <2>2, <3>1
        <5> QED
          BY <5>1, Zenon DEF StreamOK
      <4> QED
        BY <2>2, <2>4, <3>1, <4>1 DEF Followed
    <3>3. from[s] < i
      <4>1. from[s] = lastEventID[c]
        BY <2>2, <3>1 DEF OpenOK
      <4> QED
        BY <1>0, <2>7, <4>1
    <3>4. i \in Range(p) \cup dropped[s]
      <4>1. CASE i = written[s][n]
        BY <2>3, <3>1, <4>1, Zenon
      <4>2. CASE i < written[s][n]
        BY <2>3, <3>1, <3>2, <3>3, <4>2, Zenon DEF GapsOK, NoGaps, WantedBy
      <4>3. written[s][n] \in Int
        BY <2>3, <3>1, IdsAreNat, Zenon
      <4> QED
        BY <1>0, <3>1, <4>1, <4>2, <4>3
    <3> QED
      BY <1>0, <2>4, <3>1, <3>4, Zenon DEF CoveredFor
  <2> QED
    BY <2>6, <2>7, Zenon
<1> QED
  BY <1>1, <1>2, Zenon

\* What a client has got, over all of its connections, has no gap where all is
\* in order.
ClientOK == OpenOK /\ OrderOK /\ GapsOK /\ ResumedOK

\* That holds in every reachable state.
THEOREM ClientCorrect == Spec => []ClientOK
<1>1. Init => ClientOK
  <2> SUFFICES ASSUME Init PROVE ClientOK
    OBVIOUS
  <2>1. Range(<<>>) = {}
    BY DEF Range
  <2>2. OpenOK
    BY <2>1, Zenon DEF Init, OpenOK
  <2>3. OrderOK
    BY Zenon DEF Init, OrderOK, Begun
  <2>4. GapsOK
    BY Zenon DEF Init, GapsOK, Followed
  <2>5. ResumedOK
    <3>1. \A i \in Ids, c \in Clients : ~(i <= lastEventID[c])
      BY IdsAreNat DEF Init
    <3> QED
      BY <3>1, Zenon DEF ResumedOK, WantedBy
  <2> QED
    BY <2>2, <2>3, <2>4, <2>5, Zenon DEF ClientOK
<1>2. StreamOK /\ SafeInv /\ SentOK /\ CommitsOK /\ ClientOK /\ [Next]_vars => ClientOK'
  <2> SUFFICES ASSUME StreamOK, SafeInv, SentOK, CommitsOK, OpenOK, OrderOK, GapsOK,
                      ResumedOK, [Next]_vars
               PROVE  ClientOK'
    BY Zenon DEF ClientOK
  <2>1. OpenOK'
    BY OpenStep, Zenon
  <2>2. AllOrdered' <=> AllOrdered
    BY OrderedFixed, Zenon DEF AllOrdered
  <2>3. OrderOK'
    <3>1. CASE AllOrdered
      BY <3>1, OrderStep, Zenon
    <3>2. CASE ~AllOrdered
      BY <2>2, <3>2, Zenon DEF OrderOK
    <3> QED
      BY <3>1, <3>2, Zenon
  <2>4. GapsOK'
    <3>1. AllOrdered => \A t \in Subs : Followed(t)' => NoGaps(t)'
      BY GapsStep, Zenon
    <3> QED
      BY <2>2, <3>1, Zenon DEF GapsOK
  <2>5. ResumedOK'
    <3>1. ASSUME AllOrdered, NEW c \in Clients, \A s \in Mine(c) : Filled(s)',
                 NEW i \in WantedBy(c), i <= lastEventID'[c]
          PROVE  i \in CoveredFor(c)'
      BY <3>1, ResumedStep, Zenon
    <3>2. \A c : Mine(c)' = Mine(c) /\ WantedBy(c)' = WantedBy(c)
      BY Zenon DEF Mine, WantedBy
    <3> QED
      BY <2>2, <3>1, <3>2, Zenon DEF ResumedOK
  <2> QED
    BY <2>1, <2>3, <2>4, <2>5, Zenon DEF ClientOK
<1> QED
  BY <1>1, <1>2, BrokerIsSafe, StreamCorrect, OnceCorrect, CommitsCorrect, PTL DEF Spec

\* No event is lost on a connection where transactions commit in the order of
\* their ids, nor over the connections of a client where stamps and broadcasts
\* keep that order too.
THEOREM NoEventLost == Spec => []NothingLost
<1>1. StreamOK /\ SentOK /\ CommitsOK /\ ClientOK => ResumesWhereItLeft
  <2> SUFFICES ASSUME StreamOK, SentOK, CommitsOK, OpenOK, ResumedOK, AllOrdered,
                      NEW t \in Subs, Quiet(t), \A s \in Mine(KeyOf[t]) : Filled(s),
                      NEW i \in WantedBy(KeyOf[t]), stage[i] = "done"
               PROVE  i \in CoveredFor(KeyOf[t])
    BY Zenon DEF ClientOK, ResumesWhereItLeft, AllOrdered, Mine, CoveredFor, WantedBy
  <2>1. t \in Mine(KeyOf[t]) /\ KeyOf[t] \in Clients /\ i \in Wants[t] /\ i \in Ids
    BY StreamAssumption, Zenon DEF Mine, WantedBy
  <2>2. CASE i <= lastEventID[KeyOf[t]]
    BY <2>1, <2>2, Zenon DEF ResumedOK
  <2>3. CASE ~(i <= lastEventID[KeyOf[t]])
    <3>1. from[t] = lastEventID[KeyOf[t]]
      BY Zenon DEF Quiet, OpenOK
    <3>2. from[t] \in Int /\ i \in Int
      BY <2>1, StreamAssumption, IdsAreNat DEF StreamOK
    <3>3. i > from[t]
      BY <2>3, <3>1, <3>2
    <3>4. "commits" \in ordered
      BY Zenon DEF AllOrdered
    <3>5. i \in Covered(t)
      BY <2>1, <3>3, <3>4, QuietIsCovered, Zenon
    <3> QED
      BY <2>1, <3>5, Zenon DEF CoveredFor
  <2> QED
    BY <2>2, <2>3, Zenon
<1>2. StreamOK /\ SentOK /\ CommitsOK /\ ClientOK /\ NothingLostIfCommitsInOrder => NothingLost
  BY <1>1, Zenon DEF NothingLost
<1> QED
  BY <1>2, NoneLostInBetween, StreamCorrect, OnceCorrect, CommitsCorrect, ClientCorrect, PTL

-----------------------------------------------------------------------------
(* The broker's counts *)

INSTANCE FiniteSetTheorems

\* A subscription counts for its own client key and for no other.
LEMMA CountAdded ==
  ASSUME NEW Before, NEW After, NEW s, NEW own \in BOOLEAN,
         IsFiniteSet(Before), s \notin Before,
         After = IF own THEN Before \cup {s} ELSE Before
  PROVE  /\ Cardinality(Before) \in Nat
         /\ Cardinality(After) = IF own THEN Cardinality(Before) + 1
                                        ELSE Cardinality(Before)
<1>1. Cardinality(Before) \in Nat
  BY FS_CardinalityType, Zenon
<1>2. Cardinality(Before \cup {s}) = Cardinality(Before) + 1
  BY FS_AddElement, Zenon
<1> QED
  BY <1>1, <1>2, Zenon

\* The broker counts as its instance here does.
LEMMA SameCardinality == \A T : B!Cardinality(T) = Cardinality(T)
  BY Zenon DEF B!Cardinality, Cardinality

\* The counts, in the terms of this module.
CountsOK ==
  /\ Cardinality(subscribers) <= maxSubscribers
  /\ \A c \in Clients :
       /\ byClient[c] = Cardinality(B!Of(c))
       /\ byClient[c] <= maxSubscribersPerClient

\* byClient always equals the number of a client's connections, and neither
\* limit is exceeded, whatever the order of Unsubscribe and Shutdown.
THEOREM CountsCorrect == B!Spec => []B!CountsMatchSubscribers
<1>1. B!Init => CountsOK
  <2> SUFFICES ASSUME B!Init PROVE CountsOK
    OBVIOUS
  <2>1. subscribers = {} /\ \A c \in Clients : B!Of(c) = {} /\ byClient[c] = 0
    BY Zenon DEF B!Init, B!Of
  <2>2. Cardinality({}) = 0
    BY FS_EmptySet, Zenon
  <2> QED
    BY <2>1, <2>2, BrokerAssumption DEF CountsOK
<1>2. SafeInv /\ CountsOK /\ [B!Next]_(B!vars) => CountsOK'
  <2> SUFFICES ASSUME SafeInv, CountsOK, [B!Next]_(B!vars)
               PROVE  CountsOK'
    OBVIOUS
  <2>0. /\ subscribers \subseteq Subs /\ IsFiniteSet(subscribers)
        /\ Cardinality(subscribers) \in Nat
        /\ byClient \in [Clients -> Nat]
    BY BrokerAssumption, FS_Subset, FS_CardinalityType, Zenon DEF SafeInv, B!TypeOK
  <2>1. ASSUME NEW s \in Subs, B!Subscribe(s) PROVE CountsOK'
    <3>1. s \notin subscribers /\ subscribers' = subscribers \cup {s}
      BY <2>1, Zenon DEF B!Subscribe, SafeInv, B!TypeOK
    <3>2. Cardinality(subscribers \cup {s}) = Cardinality(subscribers) + 1
      BY <2>0, <3>1, FS_AddElement, Zenon
    <3>3. Cardinality(subscribers') <= maxSubscribers
      BY <2>0, <2>1, <3>1, <3>2, BrokerAssumption, SameCardinality DEF B!Subscribe, B!Refused
    <3>4. ASSUME NEW c \in Clients
          PROVE  /\ byClient'[c] = Cardinality(B!Of(c)')
                 /\ byClient'[c] <= maxSubscribersPerClient
      <4> DEFINE own == KeyOf[s] = c
      <4>1. /\ B!Of(c)' = IF own THEN B!Of(c) \cup {s} ELSE B!Of(c)
            /\ B!Of(c) \subseteq subscribers /\ s \notin B!Of(c)
        BY <3>1, Zenon DEF B!Of
      <4>0. IsFiniteSet(B!Of(c)) /\ own \in BOOLEAN
        BY <2>0, <4>1, FS_Subset, Zenon
      <4> HIDE DEF own
      <4>2. Cardinality(B!Of(c)') = IF own THEN Cardinality(B!Of(c)) + 1
                                         ELSE Cardinality(B!Of(c))
        BY <4>1, <4>0, CountAdded, Zenon
      <4>3. byClient'[c] = IF c = KeyOf[s] THEN byClient[c] + 1 ELSE byClient[c]
        BY <2>1, Zenon DEF B!Subscribe
      <4>4. byClient[c] = Cardinality(B!Of(c)) /\ byClient[c] <= maxSubscribersPerClient
        BY Zenon DEF CountsOK
      <4>5. c = KeyOf[s] => ~(byClient[c] >= maxSubscribersPerClient)
        BY <2>1, Zenon DEF B!Subscribe, B!Refused
      <4> QED
        BY <2>0, <4>2, <4>3, <4>4, <4>5, BrokerAssumption DEF own
    <3> QED
      BY <3>3, <3>4, Zenon DEF CountsOK
  <2>2. ASSUME NEW s \in Subs, B!Unsubscribe(s) PROVE CountsOK'
    <3>1. CASE s \notin subscribers
      BY <2>2, <3>1, Zenon DEF B!Unsubscribe, CountsOK, B!Of
    <3>2. CASE s \in subscribers
      <4> DEFINE R == subscribers \ {s}
      <4>1. /\ subscribers' = R /\ subscribers = R \cup {s} /\ s \notin R
            /\ B!decClientLocked(s)
        BY <2>2, <3>2, Zenon DEF B!Unsubscribe
      <4>2. IsFiniteSet(R) /\ Cardinality(R) <= Cardinality(subscribers)
              /\ Cardinality(R) \in Nat
        BY <2>0, FS_Subset, FS_CardinalityType, Zenon
      <4>3. Cardinality(subscribers') <= maxSubscribers
        BY <2>0, <4>1, <4>2, BrokerAssumption DEF CountsOK
      <4>4. ASSUME NEW c \in Clients
            PROVE  /\ byClient'[c] = Cardinality(B!Of(c)')
                   /\ byClient'[c] <= maxSubscribersPerClient
        <5> DEFINE own == KeyOf[s] = c
        <5>1. /\ B!Of(c) = IF own THEN B!Of(c)' \cup {s} ELSE B!Of(c)'
              /\ B!Of(c)' \subseteq R /\ s \notin B!Of(c)'
          BY <4>1, Zenon DEF B!Of
        <5>0. IsFiniteSet(B!Of(c)') /\ own \in BOOLEAN
          BY <4>2, <5>1, FS_Subset, Zenon
        <5> HIDE DEF own
        <5>2. /\ Cardinality(B!Of(c)') \in Nat
              /\ Cardinality(B!Of(c)) = IF own THEN Cardinality(B!Of(c)') + 1
                                             ELSE Cardinality(B!Of(c)')
          BY <5>1, <5>0, CountAdded, Zenon
        <5>3. byClient'[c] = IF c = KeyOf[s]
                             THEN IF byClient[c] <= 1 THEN 0 ELSE byClient[c] - 1
                             ELSE byClient[c]
          BY <4>1, Zenon DEF B!decClientLocked
        <5>4. byClient[c] = Cardinality(B!Of(c)) /\ byClient[c] <= maxSubscribersPerClient
          BY Zenon DEF CountsOK
        <5> QED
          BY <2>0, <5>2, <5>3, <5>4, BrokerAssumption DEF own
      <4> QED
        BY <4>3, <4>4, Zenon DEF CountsOK
    <3> QED
      BY <3>1, <3>2, Zenon
  <2>3. CASE B!Shutdown
    <3>1. subscribers' = {} /\ \A c \in Clients : B!Of(c)' = {} /\ byClient'[c] = 0
      BY <2>3, Zenon DEF B!Shutdown, B!Of
    <3>2. Cardinality({}) = 0
      BY FS_EmptySet, Zenon
    <3> QED
      BY <3>1, <3>2, BrokerAssumption DEF CountsOK
  <2>4. ASSUME UNCHANGED <<subscribers, byClient>>
        PROVE  CountsOK'
    BY <2>4, Zenon DEF CountsOK, B!Of
  <2> QED
    BY <2>1, <2>2, <2>3, <2>4, Zenon
       DEF B!Next, B!Broadcast, B!BroadcastStarts, B!BroadcastSends, B!BroadcastEnds,
           B!Receive, B!vars, B!subVars
<1>3. CountsOK => B!CountsMatchSubscribers
  BY SameCardinality, Zenon DEF CountsOK, B!CountsMatchSubscribers
<1> QED
  BY <1>1, <1>2, <1>3, SafetyCorrect, PTL DEF B!Spec

\* However handlers return, clients leave, broadcasts run and the server shuts
\* down, no broadcast meets a closed channel, no channel is closed twice and the
\* counts match the connections: for every number of clients, connections and
\* senders.
THEOREM BrokerStaysIntact == Spec => []BrokerIntact
<1>1. B!SendsAreSafe /\ B!CountsMatchSubscribers => BrokerIntact
  BY Zenon DEF BrokerIntact
<1>2. B!Spec => []B!SendsAreSafe
  BY NoSendOnClosed, PTL
<1> QED
  BY <1>1, <1>2, UsesBroker, CountsCorrect, PTL
=============================================================================
