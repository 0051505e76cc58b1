---------------------------- MODULE ListenerProofs ----------------------------
(***************************************************************************)
(* Proofs about the LISTEN connection, for any list of channels, any       *)
(* number of rows and of lost connections, and every buffer size and page  *)
(* limit.                                                                  *)
(***************************************************************************)
EXTENDS Listener, FiniteSetTheorems, SequenceTheorems, WellFoundedInduction, TLAPS

-----------------------------------------------------------------------------
(* The inductive invariants *)

Notes == Chans \X Ids

\* The gap fill in progress has still to come to row i of channel c.
Pending(c, i) ==
  \E k \in 1..Len(channels) :
    /\ channels[k] = c
    /\ \/ pc = "fill" /\ k >= at
       \/ pc = "gap" /\ k > at
       \/ pc = "gap" /\ k = at /\ i \in gap

\* How often n is in the sequence s, or a condition holds.
Places(s, n) == {k \in 1..Len(s) : s[k] = n}
Occ(s, n)    == Cardinality(Places(s, n))
Bit(b)       == IF b THEN 1 ELSE 0

StateOK ==
  /\ TypeOK
  /\ losses \in Nat
  /\ pc \in {"fill", "gap"} => at \in 1..Len(channels)
  /\ held # <<>> => pc = "recv"
  /\ pc \in {"down", "closed"} => ~up
  /\ ~up => wire = <<>>

\* A row is handed out, or about to be, once for its commit and once for each
\* connection that was lost and established again.
CopiesOK ==
  \A c \in Chans, i \in Ids :
    seen[c][i] + Occ(ch, <<c, i>>) + Occ(wire, <<c, i>>) + Bit(held = <<<<c, i>>>>)
      + Bit(Pending(c, i)) + Bit(i \notin rows[c]) + Bit(~up /\ pc # "closed")
    <= 1 + losses

\* The rows no worker has been or will be handed by what is in the channel.
Undelivered(c) == {i \in rows[c] : seen[c][i] = 0 /\ Places(ch, <<c, i>>) = {}}

Watched == Chans \ (gaveUp \cup noBaseline)

\* What is under way is committed; a row that is not late is notified after
\* smaller ones only.
OrderOK ==
  /\ \A k \in 1..Len(wire) : wire[k][2] \in rows[wire[k][1]]
  /\ \A k, l \in 1..Len(wire) :
       k < l /\ wire[k][1] = wire[l][1] =>
         wire[k][2] < wire[l][2] \/ wire[l][2] \in late[wire[l][1]]
  /\ \A c \in Chans, i \in Ids : held = <<<<c, i>>>> => i \in rows[c]
  /\ \A c \in Chans : lastSeenID[c] \in rows[c] \cup {0}
  /\ pc = "gap" => gap \subseteq rows[channels[at]]

\* An undelivered row that is not late is above lastSeenID and still to come:
\* held, on the wire, lost with the connection, or ahead of the gap fill.  No
\* larger one overtakes it.
OnItsWay(c, i) ==
  \/ held = <<<<c, i>>>>
  \/ Places(wire, <<c, i>>) # {}
  \/ ~up
  \/ Pending(c, i)
InTurn(c, i) ==
  /\ i > lastSeenID[c]
  /\ \A j \in Ids : held = <<<<c, j>>>> => j <= i
  /\ pc = "gap" /\ c = channels[at] => i \in gap \/ \A j \in gap : j < i
ComingOK ==
  \A c \in Watched : \A i \in Undelivered(c) \ late[c] :
    OnItsWay(c, i) /\ InTurn(c, i)

\* On the first connection every undelivered row, late or not, is held or on the
\* wire.
PromptOK ==
  losses = 0 =>
    \/ pc = "closed"
    \/ /\ pc = "recv" /\ up
       /\ \A c \in Chans : \A i \in Undelivered(c) :
            held = <<<<c, i>>>> \/ Places(wire, <<c, i>>) # {}

-----------------------------------------------------------------------------
(* Sequences, pages and the order of ids *)

\* The copies of a notification in a queue can be counted, and there are none when it is at no
\* place.
LEMMA PlacesFinite ==
  ASSUME NEW s \in Seq(Notes), NEW n
  PROVE  /\ IsFiniteSet(Places(s, n)) /\ Occ(s, n) \in Nat
         /\ Occ(s, n) = 0 <=> Places(s, n) = {}
<1>1. IsFiniteSet(1..Len(s))
  BY FS_Interval, LenProperties
<1>2. IsFiniteSet(Places(s, n))
  BY <1>1, FS_Subset DEF Places
<1> QED
  BY <1>2, FS_CardinalityType, FS_EmptySet DEF Occ

\* An empty queue holds no copy of anything.
LEMMA PlacesEmpty ==
  ASSUME NEW n
  PROVE  Places(<<>>, n) = {} /\ Occ(<<>>, n) = 0
<1>1. Places(<<>>, n) = {}
  BY DEF Places
<1> QED
  BY <1>1, FS_EmptySet DEF Occ

\* Appending a notification adds one copy of it and none of any other.
LEMMA OccAppend ==
  ASSUME NEW s \in Seq(Notes), NEW m \in Notes, NEW n
  PROVE  /\ Occ(Append(s, m), n) = Occ(s, n) + Bit(m = n)
         /\ Places(Append(s, m), n) = {} <=> (Places(s, n) = {} /\ m # n)
<1> DEFINE a == Append(s, m)
           P == Places(s, n)
<1>1. /\ Len(a) = Len(s) + 1 /\ Len(s) \in Nat
      /\ \A k \in 1..Len(s) : a[k] = s[k]
      /\ a[Len(s) + 1] = m
  BY AppendProperties, LenProperties
<1>2. 1..(Len(s) + 1) = (1..Len(s)) \cup {Len(s) + 1} /\ Len(s) + 1 \notin 1..Len(s)
  BY <1>1
<1>3. CASE m = n
  <2>1. Places(a, n) = P \cup {Len(s) + 1} /\ Len(s) + 1 \notin P
    BY <1>1, <1>2, <1>3 DEF Places
  <2>2. Cardinality(P \cup {Len(s) + 1}) = Cardinality(P) + 1
    BY <2>1, PlacesFinite, FS_AddElement, Zenon
  <2> QED
    BY <1>3, <2>1, <2>2 DEF Occ, Bit
<1>4. CASE m # n
  <2>1. Places(a, n) = P
    BY <1>1, <1>2, <1>4 DEF Places
  <2> QED
    BY <1>4, <2>1, PlacesFinite DEF Occ, Bit
<1> QED
  BY <1>3, <1>4

\* After an append a queue holds no copy of a notification exactly when it held
\* none before and another was appended.
LEMMA PlacesAppend ==
  ASSUME NEW s \in Seq(Notes), NEW m \in Notes, NEW n
  PROVE  Places(Append(s, m), n) = {} <=> (Places(s, n) = {} /\ m # n)
  BY OccAppend DEF Bit

\* Taking the head of a queue takes one copy of it and none of any other.
LEMMA OccTail ==
  ASSUME NEW s \in Seq(Notes), s # <<>>, NEW n
  PROVE  /\ Occ(s, n) = Occ(Tail(s), n) + Bit(Head(s) = n)
         /\ Places(s, n) = {} <=> (Places(Tail(s), n) = {} /\ Head(s) # n)
<1> DEFINE t == Tail(s)
           P == Places(s, n)
           Q == Places(t, n)
           R == P \ {1}
<1>1. /\ Len(s) \in Nat \ {0} /\ Len(t) = Len(s) - 1 /\ Head(s) = s[1]
      /\ t \in Seq(Notes)
      /\ \A k \in 1..Len(t) : t[k] = s[k + 1]
  BY HeadTailProperties, LenProperties, EmptySeq
<1>2. IsFiniteSet(P) /\ IsFiniteSet(Q) /\ IsFiniteSet(R)
  BY <1>1, PlacesFinite, FS_RemoveElement, Zenon
<1>3. Cardinality(R) = Cardinality(Q)
  <2> DEFINE f == [k \in R |-> k - 1]
  <2>1. \A k \in R : k \in 2..Len(s) /\ s[k] = n
    BY <1>1 DEF Places
  <2>2. \A k \in R : k - 1 \in Q
    BY <1>1, <2>1 DEF Places
  <2>3. \A k \in Q : k + 1 \in R /\ f[k + 1] = k
    <3>1. \A k \in Q : k + 1 \in R
      BY <1>1 DEF Places
    <3>2. \A k \in Q : k \in Nat
      BY DEF Places
    <3> QED
      BY <3>1, <3>2
  <2>4. f \in Bijection(R, Q)
    <3>1. \A k \in R : k \in Int
      BY <2>1
    <3> HIDE DEF R, Q
    <3>2. f \in [R -> Q]
      BY <2>2
    <3>3. IsInjective(f)
      BY <3>1 DEF IsInjective
    <3>4. \A k \in Q : \E j \in R : f[j] = k
      BY <2>3, Zenon
    <3> HIDE DEF f
    <3> QED
      BY <3>2, <3>3, <3>4 DEF Bijection, Injection, Surjection
  <2> HIDE DEF f, R, Q
  <2> QED
    BY <1>2, <2>4, FS_Bijection DEF ExistsBijection
<1>4. R = {} <=> Q = {}
  BY <1>2, <1>3, FS_EmptySet
<1>5. CASE Head(s) = n
  <2>1. 1 \in P
    BY <1>1, <1>5 DEF Places
  <2>2. Cardinality(R) = Cardinality(P) - 1
    BY <1>2, <2>1, FS_RemoveElement
  <2>3. Cardinality(P) \in Nat
    BY <1>2, FS_CardinalityType
  <2> QED
    BY <1>3, <1>5, <2>1, <2>2, <2>3 DEF Occ, Bit
<1>6. CASE Head(s) # n
  <2>1. R = P
    BY <1>1, <1>6 DEF Places
  <2>2. Occ(t, n) \in Nat
    BY <1>1, PlacesFinite, Zenon
  <2>3. Occ(s, n) = Occ(t, n)
    BY <1>3, <2>1, Zenon DEF Occ
  <2>4. Bit(Head(s) = n) = 0
    BY <1>6 DEF Bit
  <2> QED
    BY <1>4, <1>6, <2>1, <2>2, <2>3, <2>4
<1> QED
  BY <1>5, <1>6

\* A non-empty set of naturals has a least element.
LEMMA HasLeast ==
  ASSUME NEW S, S \subseteq Nat, S # {}
  PROVE  \E x \in S : \A y \in S : x <= y
<1>1. PICK x \in S : \A y \in S : ~(<<y, x>> \in OpToRel(<, Nat))
  BY WFMin, NatLessThanWellFounded, Zenon
<1>2. ASSUME NEW y \in S PROVE x <= y
  <2>1. ~(y < x)
    BY <1>1, Zenon DEF OpToRel
  <2> QED
    BY <2>1
<1> QED
  BY <1>2

\* A non-empty set of row ids has a greatest element.
LEMMA HasGreatest ==
  ASSUME NEW S, S \subseteq Ids, S # {}
  PROVE  \E x \in S : \A y \in S : y <= x
<1> DEFINE D == {MaxId - x : x \in S}
<1>1. \A x \in S : x \in Int /\ x <= MaxId
  BY DEF Ids
<1>2. MaxId \in Nat
  BY ListenerAssumption
<1>3. D \subseteq Nat /\ D # {}
  BY <1>1, <1>2
<1>4. PICK d \in D : \A e \in D : d <= e
  <2> HIDE DEF D
  <2> QED
    BY <1>3, HasLeast, Zenon
<1>5. PICK x \in S : d = MaxId - x
  BY <1>4
<1>6. ASSUME NEW y \in S PROVE y <= x
  <2>1. MaxId - x <= MaxId - y
    BY <1>4, <1>5
  <2> QED
    BY <1>1, <1>2, <2>1
<1> QED
  BY <1>6

\* A page that is not full is all there is.
LEMMA PageIsAll ==
  ASSUME TypeOK, NEW c \in Chans, NEW id \in Nat,
         Cardinality(Page(c, id)) # gapFillLimit
  PROVE  Page(c, id) = {i \in rows[c] : i > id}
<1> DEFINE A == {i \in rows[c] : i > id}
           Below(i) == {j \in rows[c] : id < j /\ j < i}
<1>1. rows[c] \subseteq Ids /\ gapFillLimit \in Nat \ {0}
  BY ListenerAssumption DEF TypeOK
<1>2. IsFiniteSet(Ids) /\ Ids \subseteq Nat /\ MaxId \in Nat
  BY FS_Interval, ListenerAssumption DEF Ids
<1>3. \A S : S \subseteq Ids => IsFiniteSet(S) /\ Cardinality(S) \in Nat
  BY <1>2, FS_Subset, FS_CardinalityType, Zenon
<1>4. Page(c, id) = {i \in A : Cardinality(Below(i)) < gapFillLimit}
  BY DEF Page
<1>5. SUFFICES ASSUME A # Page(c, id) PROVE FALSE
  OBVIOUS
<1>6. PICK i \in A \ Page(c, id) : \A j \in A \ Page(c, id) : i <= j
  <2>1. A \ Page(c, id) \subseteq Nat /\ A \ Page(c, id) # {}
    BY <1>1, <1>2, <1>4, <1>5, Zenon
  <2> HIDE DEF A
  <2> QED
    BY <2>1, HasLeast, Zenon
<1>7. i \in Nat /\ i \in Ids /\ ~(Cardinality(Below(i)) < gapFillLimit)
  BY <1>1, <1>2, <1>4, <1>6, Zenon
<1> DEFINE B == Below(i)
<1>8. B \subseteq A /\ B \subseteq Ids /\ \A j \in A : j < i <=> j \in B
  BY <1>1
<1>9. B \subseteq Page(c, id)
  <2> SUFFICES ASSUME NEW j \in B, j \notin Page(c, id) PROVE FALSE
    OBVIOUS
  <2>1. i <= j /\ j < i /\ j \in Nat
    BY <1>2, <1>6, <1>8, Zenon
  <2> QED
    BY <1>7, <2>1
<1>10. Page(c, id) \subseteq B
  <2> SUFFICES ASSUME NEW p \in Page(c, id), p \notin B PROVE FALSE
    OBVIOUS
  <2>1. p \in A /\ p \in Nat /\ Cardinality(Below(p)) < gapFillLimit
    BY <1>1, <1>2, <1>4, Zenon
  <2>2. ~(p < i)
    BY <1>8, <2>1
  <2>3. B \subseteq Below(p) /\ Below(p) \subseteq Ids
    <3>1. \A j \in B : j \in Nat /\ j < i
      BY <1>2, <1>8, Zenon
    <3>2. \A j \in B : j < p
      BY <1>7, <2>1, <2>2, <3>1
    <3> QED
      BY <1>1, <3>2
  <2>4. Cardinality(B) <= Cardinality(Below(p))
    BY <1>3, <2>3, FS_Subset
  <2>5. Cardinality(B) \in Nat /\ Cardinality(Below(p)) \in Nat
    BY <1>3, <1>8, <2>3
  <2> HIDE DEF Below
  <2> QED
    BY <1>1, <1>7, <2>1, <2>4, <2>5
<1>11. Cardinality(B) \in Nat /\ Cardinality(B) >= gapFillLimit
  BY <1>1, <1>3, <1>7, <1>8
<1>12. B # {}
  BY <1>1, <1>11, FS_EmptySet
<1>13. PICK m \in B : \A j \in B : j <= m
  <2> HIDE DEF Below
  <2> QED
    BY <1>8, <1>12, HasGreatest
<1>14. Below(m) = B \ {m}
  <2>1. \A j \in B : j \in Nat
    BY <1>2, <1>8, Zenon
  <2>2. m \in Nat /\ m < i
    BY <1>13, <2>1
  <2>3. \A j \in B \ {m} : j < m
    BY <1>13, <2>1, <2>2
  <2>4. \A j \in Below(m) : j \in B \ {m}
    <3> TAKE j \in Below(m)
    <3>1. j \in rows[c] /\ id < j /\ j < m /\ j \in Nat
      BY <1>1, <1>2, Zenon
    <3>2. j < i /\ j # m
      BY <1>7, <2>2, <3>1
    <3> QED
      BY <3>1, <3>2
  <2> QED
    BY <2>3, <2>4
<1>15. Cardinality(Below(m)) = Cardinality(B) - 1
  BY <1>3, <1>8, <1>13, <1>14, FS_RemoveElement, Zenon
<1>16. Cardinality(Below(m)) < gapFillLimit
  BY <1>4, <1>9, <1>13
<1>17. Cardinality(Page(c, id)) = Cardinality(B)
  BY <1>9, <1>10
<1> QED
  BY <1>1, <1>11, <1>15, <1>16, <1>17

-----------------------------------------------------------------------------
(* Types *)

\* The channels the listener goes through are exactly those of the configuration.
LEMMA ChannelsNamed ==
  /\ Len(channels) \in Nat \ {0}
  /\ \A k \in 1..Len(channels) : channels[k] \in Chans
  /\ \A c \in Chans : \E k \in 1..Len(channels) : channels[k] = c
  BY ListenerAssumption, LenProperties, EmptySeq DEF Chans

\* Push keeps the output channel within its buffer and lastSeenID a row id.
LEMMA PushTyped ==
  ASSUME TypeOK, NEW c \in Chans, NEW i \in Ids, Push(c, i)
  PROVE  /\ ch' \in Seq(Chans \X Ids) /\ Len(ch') <= bufferSize
         /\ lastSeenID' \in [Chans -> 0..MaxId]
<1>1. <<c, i>> \in Chans \X Ids
  OBVIOUS
<1>2. ch' \in Seq(Chans \X Ids) /\ Len(ch') = Len(ch) + 1
  BY <1>1, AppendProperties DEF Push, TypeOK
<1>3. Len(ch) \in Nat /\ Len(ch) < bufferSize /\ bufferSize \in Nat
  BY ListenerAssumption, LenProperties DEF Push, TypeOK
<1>4. i \in 0..MaxId
  BY ListenerAssumption DEF Ids
<1> QED
  BY <1>2, <1>3, <1>4 DEF Push, TypeOK

\* After one channel's gap fill comes the next channel's, or the receive loop.
LEMMA NextChannelTyped ==
  ASSUME StateOK, pc \in {"fill", "gap"}, NextChannel
  PROVE  /\ at' = at + 1 /\ at' \in 1..Len(channels) + 1 /\ gap' = {}
         /\ \/ pc' = "recv" /\ at = Len(channels)
            \/ pc' = "fill" /\ at' \in 1..Len(channels)
<1>1. at \in 1..Len(channels) /\ Len(channels) \in Nat
  BY ChannelsNamed DEF StateOK
<1>2. at' = at + 1 /\ at' \in 1..Len(channels) + 1 /\ gap' = {}
  BY <1>1 DEF NextChannel
<1>3. CASE at = Len(channels)
  BY <1>2, <1>3 DEF NextChannel
<1>4. CASE at # Len(channels)
  <2>1. at' \in 1..Len(channels)
    BY <1>1, <1>2, <1>4
  <2> QED
    BY <1>2, <1>4, <2>1 DEF NextChannel
<1> QED
  BY <1>3, <1>4

\* Every step keeps the state well formed.
LEMMA StateStep ==
  ASSUME StateOK, [Next]_vars
  PROVE  StateOK'
<1>0. Len(channels) \in Nat \ {0} /\ <<>> \in Seq(Chans \X Ids) /\ MaxId \in Nat
  BY ChannelsNamed, EmptySeq, ListenerAssumption
<1>1. ASSUME NEW c \in Chans, NEW i \in Ids, Commit(c, i) PROVE StateOK'
  <2>1. UNCHANGED <<up, pc, held, lastSeenID, at, gap, ch, cancelled, seen, losses>>
    BY <1>1 DEF Commit, fillVars, obsVars
  <2>2. rows' \in [Chans -> SUBSET Ids] /\ late' \in [Chans -> SUBSET Ids]
    BY <1>1, Zenon DEF Commit, StateOK, TypeOK
  <2>3. wire' \in Seq(Chans \X Ids) /\ (wire' = wire \/ up)
    BY <1>1, AppendProperties DEF Commit, StateOK, TypeOK
  <2> QED
    BY <2>1, <2>2, <2>3, Zenon DEF StateOK, TypeOK
<1>2. ASSUME NEW c \in Chans, NEW i \in Ids, WorkerTakes(c, i) PROVE StateOK'
  <2>1. UNCHANGED <<rows, late, wire, up, pc, held, lastSeenID, at, gap, cancelled, losses>>
    BY <1>2 DEF WorkerTakes, fillVars, obsVars, connVars, tables
  <2>2. ch' \in Seq(Chans \X Ids) /\ Len(ch') = Len(ch) - 1 /\ Len(ch) \in Nat
    BY <1>2, HeadTailProperties, LenProperties, EmptySeq DEF WorkerTakes, StateOK, TypeOK
  <2>3. Len(ch') <= bufferSize
    BY <2>2, ListenerAssumption DEF StateOK, TypeOK
  <2>4. seen' \in [Chans -> [Ids -> Nat]]
    <3>1. seen \in [Chans -> [Ids -> Nat]] /\ seen[c] \in [Ids -> Nat] /\ seen[c][i] \in Nat
      BY Zenon DEF StateOK, TypeOK
    <3>2. [seen[c] EXCEPT ![i] = @ + 1] \in [Ids -> Nat]
      BY <3>1
    <3>3. seen' = [seen EXCEPT ![c] = [seen[c] EXCEPT ![i] = @ + 1]]
      BY <1>2 DEF WorkerTakes
    <3> QED
      BY <3>1, <3>2, <3>3
  <2> QED
    BY <2>1, <2>2, <2>3, <2>4, Zenon DEF StateOK, TypeOK
<1>3. CASE ConnLost
  <2>1. /\ UNCHANGED <<rows, late, pc, held, lastSeenID, at, gap, ch, cancelled, seen>>
        /\ wire' = <<>> /\ losses' = losses + 1
    BY <1>3 DEF ConnLost, fillVars, tables
  <2>2. ~up' /\ up' \in BOOLEAN
    BY <1>3, Zenon DEF ConnLost
  <2> QED
    BY <1>0, <2>1, <2>2 DEF StateOK, TypeOK
<1>4. CASE RecvTakes
  <2>1. Head(wire) \in Chans \X Ids /\ wire' \in Seq(Chans \X Ids)
    BY <1>4, HeadTailProperties DEF RecvTakes, StateOK, TypeOK
  <2>2. held' \in {<<n>> : n \in Chans \X Ids} /\ held' # <<>>
    BY <1>4, <2>1 DEF RecvTakes
  <2>3. UNCHANGED <<rows, late, up, pc, lastSeenID, at, gap, ch, cancelled, seen, losses>>
    BY <1>4 DEF RecvTakes, fillVars, obsVars, tables
  <2>4. TypeOK'
    BY <2>1, <2>2, <2>3 DEF StateOK, TypeOK
  <2>5. pc = "recv" /\ (~up => wire' = <<>>)
    BY <1>4 DEF RecvTakes, StateOK
  <2> QED
    BY <2>3, <2>4, <2>5 DEF StateOK
<1>5. ASSUME NEW c \in Chans, NEW i \in Ids, RecvSends(c, i) PROVE StateOK'
  <2>1. UNCHANGED <<rows, late, wire, up, pc, at, gap, cancelled, seen, losses>> /\ held' = <<>>
    BY <1>5 DEF RecvSends, fillVars, obsVars, connVars, tables
  <2> QED
    BY <1>5, <2>1, PushTyped DEF RecvSends, StateOK, TypeOK, tables
<1>6. CASE RecvFails
  BY <1>0, <1>6, Zenon DEF RecvFails, StateOK, TypeOK, tables, fillVars, obsVars
<1>7. CASE Reconnect
  <2>1. UNCHANGED <<rows, late, wire, held, lastSeenID, gap, ch, cancelled, seen, losses>>
    BY <1>7 DEF Reconnect, obsVars, tables
  <2>2. held' = <<>> /\ wire' = <<>> /\ ~up
    BY <1>7, <2>1 DEF Reconnect, StateOK
  <2>3. /\ \/ pc' = "closed" /\ at' = at
           \/ pc' = "fill" /\ at' = 1
        /\ up' \in BOOLEAN
    BY <1>7, Zenon DEF Reconnect, StateOK, TypeOK
  <2>4. pc' = "closed" => ~up'
    BY <1>7, <2>2 DEF Reconnect
  <2> QED
    BY <1>0, <2>1, <2>2, <2>3, <2>4 DEF StateOK, TypeOK
<1>8. CASE FillSkips \/ FillFails \/ FillEnds
  <2>1. /\ UNCHANGED <<rows, late, wire, up, held, lastSeenID, ch, cancelled, seen, losses>>
        /\ pc \in {"fill", "gap"} /\ NextChannel
    BY <1>8 DEF FillSkips, FillFails, FillEnds, connVars, obsVars, tables
  <2> QED
    BY <2>1, NextChannelTyped DEF StateOK, TypeOK
<1>9. CASE FillQuery
  <2>1. /\ UNCHANGED <<rows, late, wire, up, held, lastSeenID, at, ch, cancelled, seen, losses>>
        /\ pc = "fill" /\ pc' = "gap" /\ gap' = Page(channels[at], lastSeenID[channels[at]])
    BY <1>9 DEF FillQuery, connVars, tables
  <2>2. gap' \subseteq Ids
    BY <2>1, ChannelsNamed DEF Page, StateOK, TypeOK
  <2> QED
    BY <2>1, <2>2 DEF StateOK, TypeOK
<1>10. ASSUME NEW c \in Chans, NEW i \in Ids, FillPush(c, i) PROVE StateOK'
  <2>1. /\ UNCHANGED <<rows, late, wire, up, pc, held, at, cancelled, seen, losses>>
        /\ gap' \subseteq gap
    BY <1>10 DEF FillPush, connVars, obsVars, tables
  <2> QED
    BY <1>10, <2>1, PushTyped DEF FillPush, StateOK, TypeOK, tables
<1>11. CASE Shutdown
  BY <1>11 DEF Shutdown, StateOK, TypeOK, tables, connVars, fillVars, obsVars
<1>12. CASE UNCHANGED vars
  BY <1>12 DEF vars, StateOK, TypeOK, tables, connVars, fillVars, obsVars
<1> QED
  BY <1>1, <1>2, <1>3, <1>4, <1>5, <1>6, <1>7, <1>8, <1>9, <1>10, <1>11, <1>12
     DEF Next, Listen

\* The state keeps its types and the channel its capacity; a lost connection has
\* nothing on the wire, and only recv holds a notification.
THEOREM StateCorrect == Spec => []StateOK
<1>1. Init => StateOK
  <2> SUFFICES ASSUME Init PROVE StateOK
    OBVIOUS
  <2>0. /\ Len(channels) \in Nat \ {0} /\ MaxId \in Nat /\ bufferSize \in Nat
        /\ <<>> \in Seq(Chans \X Ids) /\ Len(<<>>) = 0
    BY ChannelsNamed, EmptySeq, ListenerAssumption
  <2>1. up /\ up \in BOOLEAN /\ cancelled \in BOOLEAN
    BY Zenon DEF Init
  <2>2. /\ rows \in [Chans -> SUBSET Ids] /\ late \in [Chans -> SUBSET Ids]
        /\ lastSeenID \in [Chans -> 0..MaxId]
        /\ seen \in [Chans -> [Ids -> Nat]]
    BY <2>0 DEF Init
  <2>3. /\ wire = <<>> /\ held = <<>> /\ ch = <<>> /\ pc = "recv" /\ at = 1 /\ gap = {}
        /\ losses = 0
    BY DEF Init
  <2> QED
    BY <2>0, <2>1, <2>2, <2>3 DEF StateOK, TypeOK
<1>2. StateOK /\ [Next]_vars => StateOK'
  BY StateStep
<1> QED
  BY <1>1, <1>2, PTL DEF Spec

-----------------------------------------------------------------------------
(* Copies *)

\* No step brings a gap fill back to what it has passed.
LEMMA PendingShrinks ==
  ASSUME StateOK, NEW c \in Chans, NEW i \in Ids, Pending(c, i)',
         \/ pc \in {"fill", "gap"} /\ NextChannel
         \/ FillQuery
         \/ \E x \in Chans, j \in Ids : FillPush(x, j)
         \/ UNCHANGED <<pc, at, gap>>
  PROVE  Pending(c, i)
<1>0. Len(channels) \in Nat \ {0} /\ at \in Nat
  BY ChannelsNamed DEF StateOK, TypeOK
<1>1. CASE pc \in {"fill", "gap"} /\ NextChannel
  BY <1>0, <1>1, NextChannelTyped DEF Pending
<1>2. CASE FillQuery
  BY <1>0, <1>2 DEF FillQuery, Pending
<1>3. ASSUME NEW x \in Chans, NEW j \in Ids, FillPush(x, j) PROVE Pending(c, i)
  BY <1>0, <1>3 DEF FillPush, Pending
<1>4. CASE UNCHANGED <<pc, at, gap>>
  BY <1>4 DEF Pending
<1> QED
  BY <1>1, <1>2, <1>3, <1>4

\* Every step keeps the copies of a row within one and one for each lost connection.
LEMMA CopiesStep ==
  ASSUME StateOK, StateOK', CopiesOK, [Next]_vars
  PROVE  CopiesOK'
<1> SUFFICES ASSUME NEW c \in Chans, NEW i \in Ids
             PROVE  (seen[c][i] + Occ(ch, <<c, i>>) + Occ(wire, <<c, i>>)
                       + Bit(held = <<<<c, i>>>>) + Bit(Pending(c, i))
                       + Bit(i \notin rows[c]) + Bit(~up /\ pc # "closed")
                     <= 1 + losses)'
  BY Zenon DEF CopiesOK
<1> DEFINE n == <<c, i>>
<1>n. n \in Notes
  BY DEF Notes
<1>t. /\ wire \in Seq(Notes) /\ ch \in Seq(Notes)
      /\ wire' \in Seq(Notes) /\ ch' \in Seq(Notes)
      /\ rows \in [Chans -> SUBSET Ids] /\ seen \in [Chans -> [Ids -> Nat]]
      /\ seen' \in [Chans -> [Ids -> Nat]]
  BY Zenon DEF StateOK, TypeOK, Notes
<1>e. Occ(<<>>, n) = 0
  BY PlacesEmpty
\* The terms of the sum, before and after the step.
<1>a. PICK a \in Nat, a1 \in Nat : a = seen[c][i] /\ a1 = seen'[c][i]
  BY <1>t
<1>b. PICK b \in Nat, b1 \in Nat : b = Occ(ch, n) /\ b1 = Occ(ch', n)
  BY <1>t, PlacesFinite, Zenon
<1>d. PICK d \in Nat, d1 \in Nat : d = Occ(wire, n) /\ d1 = Occ(wire', n)
  BY <1>t, PlacesFinite, Zenon
<1>h. PICK h \in 0..1, h1 \in 0..1 : h = Bit(held = <<n>>) /\ h1 = Bit(held' = <<n>>)
  BY DEF Bit
<1>p. PICK p \in 0..1, p1 \in 0..1 : p = Bit(Pending(c, i)) /\ p1 = Bit(Pending(c, i)')
  BY DEF Bit
<1>r. PICK r \in 0..1, r1 \in 0..1 : r = Bit(i \notin rows[c]) /\ r1 = Bit(i \notin rows'[c])
  BY DEF Bit
<1>u. PICK u \in 0..1, u1 \in 0..1 :
        u = Bit(~up /\ pc # "closed") /\ u1 = Bit(~up' /\ pc' # "closed")
  BY DEF Bit
<1>l. PICK l \in Nat, l1 \in Nat : l = losses /\ l1 = losses'
  BY DEF StateOK
<1>i. a + b + d + h + p + r + u <= 1 + l
  BY <1>a, <1>b, <1>d, <1>h, <1>p, <1>r, <1>u, <1>l DEF CopiesOK
<1> SUFFICES a1 + b1 + d1 + h1 + p1 + r1 + u1 <= 1 + l1
  BY <1>a, <1>b, <1>d, <1>h, <1>p, <1>r, <1>u, <1>l
<1>q. ASSUME \/ pc \in {"fill", "gap"} /\ NextChannel
             \/ FillQuery
             \/ \E x \in Chans, j \in Ids : FillPush(x, j)
             \/ UNCHANGED <<pc, at, gap>>
      PROVE  p1 <= p
  BY <1>p, <1>q, PendingShrinks DEF Bit
<1>1. ASSUME NEW x \in Chans, NEW j \in Ids, Commit(x, j)
      PROVE  a1 + b1 + d1 + h1 + p1 + r1 + u1 <= 1 + l1
  <2>1. UNCHANGED <<up, pc, held, at, gap, ch, seen, losses>>
    BY <1>1 DEF Commit, fillVars, obsVars
  <2>2. a1 = a /\ b1 = b /\ h1 = h /\ u1 = u /\ l1 = l
    BY <1>a, <1>b, <1>h, <1>u, <1>l, <2>1
  <2>3. p1 <= p
    BY <1>q, <2>1
  <2>4. <<x, j>> \in Notes
    BY DEF Notes
  <2>5. PICK e \in 0..1 : e = Bit(<<x, j>> = n)
    BY DEF Bit
  <2>6. d1 <= d + e
    <3>1. CASE wire' = Append(wire, <<x, j>>)
      <4>1. Occ(Append(wire, <<x, j>>), n) = Occ(wire, n) + Bit(<<x, j>> = n)
        <5> DEFINE m == <<x, j>>
        <5>1. m \in Notes
          BY <2>4
        <5> HIDE DEF m, n
        <5>2. Occ(Append(wire, m), n) = Occ(wire, n) + Bit(m = n)
          BY <1>t, <5>1, OccAppend DEF Bit
        <5> QED
          BY <5>2 DEF m
      <4> QED
        <5>1. d1 = d + e
          BY <1>d, <2>5, <3>1, <4>1
        <5> QED
          BY <5>1
    <3>2. CASE wire' = wire
      BY <1>d, <3>2
    <3> QED
      BY <1>1, <3>1, <3>2 DEF Commit
  <2>7. r1 + e = r
    BY <1>1, <1>t, <1>r, <2>5 DEF Commit, Bit
  <2> QED
    BY <1>i, <2>2, <2>3, <2>6, <2>7
<1>2. ASSUME NEW x \in Chans, NEW j \in Ids, WorkerTakes(x, j)
      PROVE  a1 + b1 + d1 + h1 + p1 + r1 + u1 <= 1 + l1
  <2>1. UNCHANGED <<rows, wire, up, pc, held, at, gap, losses>>
    BY <1>2 DEF WorkerTakes, connVars, fillVars, obsVars, tables
  <2>2. d1 = d /\ h1 = h /\ r1 = r /\ u1 = u /\ l1 = l
    BY <1>d, <1>h, <1>r, <1>u, <1>l, <2>1
  <2>3. p1 <= p
    BY <1>q, <2>1
  <2>4. PICK e \in 0..1 : e = Bit(<<x, j>> = n)
    BY DEF Bit
  <2>5. b = b1 + e
    <3>1. ch # <<>> /\ Head(ch) = <<x, j>> /\ ch' = Tail(ch)
      BY <1>2 DEF WorkerTakes
    <3>2. Occ(ch, n) = Occ(Tail(ch), n) + Bit(Head(ch) = n)
      BY <1>t, <3>1, OccTail, Zenon
    <3> QED
      BY <1>b, <2>4, <3>1, <3>2, Zenon
  <2>6. a1 = a + e
    BY <1>2, <1>t, <1>a, <2>4 DEF WorkerTakes, Bit
  <2> QED
    BY <1>i, <2>2, <2>3, <2>5, <2>6
<1>3. ASSUME ConnLost
      PROVE  a1 + b1 + d1 + h1 + p1 + r1 + u1 <= 1 + l1
  <2>1. UNCHANGED <<rows, ch, seen, pc, held, at, gap>>
    BY <1>3 DEF ConnLost, fillVars, tables
  <2>2. a1 = a /\ b1 = b /\ h1 = h /\ r1 = r
    BY <1>a, <1>b, <1>h, <1>r, <2>1
  <2>3. p1 <= p
    BY <1>q, <2>1
  <2>4. d1 = 0
    BY <1>3, <1>d, <1>e DEF ConnLost
  <2>5. u = 0
    BY <1>3, <1>u DEF ConnLost, Bit
  <2>6. l1 = l + 1
    BY <1>3, <1>l DEF ConnLost
  <2> QED
    BY <1>i, <2>2, <2>3, <2>4, <2>5, <2>6
<1>4. ASSUME RecvTakes
      PROVE  a1 + b1 + d1 + h1 + p1 + r1 + u1 <= 1 + l1
  <2>1. UNCHANGED <<rows, ch, seen, pc, up, at, gap, losses>>
    BY <1>4 DEF RecvTakes, fillVars, obsVars, tables
  <2>2. a1 = a /\ b1 = b /\ r1 = r /\ u1 = u /\ l1 = l
    BY <1>a, <1>b, <1>r, <1>u, <1>l, <2>1
  <2>3. p1 <= p
    BY <1>q, <2>1
  <2>4. PICK e \in 0..1 : e = Bit(Head(wire) = n)
    BY DEF Bit
  <2>5. d = d1 + e
    <3>1. wire # <<>> /\ wire' = Tail(wire)
      BY <1>4 DEF RecvTakes
    <3>2. Occ(wire, n) = Occ(Tail(wire), n) + Bit(Head(wire) = n)
      <4> HIDE DEF n
      <4> QED
        BY <1>t, <3>1, OccTail DEF Bit
    <3> QED
      BY <1>d, <2>4, <3>1, <3>2
  <2>6. h1 = e
    BY <1>4, <1>h, <2>4 DEF RecvTakes, Bit
  <2> QED
    BY <1>i, <2>2, <2>3, <2>5, <2>6
<1>5. ASSUME NEW x \in Chans, NEW j \in Ids, RecvSends(x, j)
      PROVE  a1 + b1 + d1 + h1 + p1 + r1 + u1 <= 1 + l1
  <2>1. UNCHANGED <<rows, wire, seen, pc, up, at, gap, losses>>
    BY <1>5 DEF RecvSends, connVars, fillVars, obsVars, tables
  <2>2. a1 = a /\ d1 = d /\ r1 = r /\ u1 = u /\ l1 = l
    BY <1>a, <1>d, <1>r, <1>u, <1>l, <2>1
  <2>3. p1 <= p
    BY <1>q, <2>1
  <2>4. <<x, j>> \in Notes
    BY DEF Notes
  <2>5. PICK e \in 0..1 : e = Bit(<<x, j>> = n)
    BY DEF Bit
  <2>6. b1 = b + e
    <3>1. ch' = Append(ch, <<x, j>>)
      BY <1>5 DEF RecvSends, Push
    <3>2. Occ(Append(ch, <<x, j>>), n) = Occ(ch, n) + Bit(<<x, j>> = n)
      <4> DEFINE m == <<x, j>>
      <4>1. m \in Notes
        BY <2>4
      <4> HIDE DEF m, n
      <4>2. Occ(Append(ch, m), n) = Occ(ch, n) + Bit(m = n)
        BY <1>t, <4>1, OccAppend DEF Bit
      <4> QED
        BY <4>2 DEF m
    <3> QED
      BY <1>b, <2>5, <3>1, <3>2
  <2>7. h = e /\ h1 = 0
    BY <1>5, <1>h, <2>5 DEF RecvSends, Bit
  <2> QED
    BY <1>i, <2>2, <2>3, <2>6, <2>7
<1>6. ASSUME RecvFails
      PROVE  a1 + b1 + d1 + h1 + p1 + r1 + u1 <= 1 + l1
  <2>1. UNCHANGED <<rows, ch, seen, losses>>
    BY <1>6 DEF RecvFails, obsVars, tables
  <2>2. a1 = a /\ b1 = b /\ r1 = r /\ l1 = l
    BY <1>a, <1>b, <1>r, <1>l, <2>1
  <2>3. d1 = 0
    BY <1>6, <1>d, <1>e DEF RecvFails
  <2>4. h1 = 0
    BY <1>6, <1>h DEF RecvFails, Bit
  <2>5. p1 = 0
    BY <1>6, <1>p DEF RecvFails, Pending, Bit
  <2>6. u1 <= u
    BY <1>6, <1>u DEF RecvFails, Bit
  <2> QED
    BY <1>i, <2>2, <2>3, <2>4, <2>5, <2>6
<1>7. ASSUME Reconnect
      PROVE  a1 + b1 + d1 + h1 + p1 + r1 + u1 <= 1 + l1
  <2>1. UNCHANGED <<rows, ch, wire, held, seen, losses>>
    BY <1>7 DEF Reconnect, obsVars, tables
  <2>2. a1 = a /\ b1 = b /\ d1 = d /\ h1 = h /\ r1 = r /\ l1 = l
    BY <1>a, <1>b, <1>d, <1>h, <1>r, <1>l, <2>1
  <2>3. p = 0
    BY <1>7, <1>p DEF Reconnect, Pending, Bit
  <2>4. u = 1
    BY <1>7, <1>u DEF Reconnect, StateOK, Bit
  <2>5. u1 = 0
    BY <1>7, <1>u DEF Reconnect, Bit
  <2> QED
    BY <1>i, <2>2, <2>3, <2>4, <2>5
<1>8. ASSUME FillSkips \/ FillFails \/ FillEnds \/ FillQuery
      PROVE  a1 + b1 + d1 + h1 + p1 + r1 + u1 <= 1 + l1
  <2>1. UNCHANGED <<rows, wire, up, held, ch, seen, losses>>
    BY <1>8 DEF FillSkips, FillFails, FillEnds, FillQuery, connVars, obsVars, tables
  <2>2. a1 = a /\ b1 = b /\ d1 = d /\ h1 = h /\ r1 = r /\ l1 = l
    BY <1>a, <1>b, <1>d, <1>h, <1>r, <1>l, <2>1
  <2>3. p1 <= p
    BY <1>8, <1>q DEF FillSkips, FillFails, FillEnds
  <2>4. pc # "closed" /\ pc' # "closed"
    BY <1>8, NextChannelTyped DEF FillSkips, FillFails, FillEnds, FillQuery
  <2>5. u1 = u
    BY <1>u, <2>1, <2>4
  <2> QED
    BY <1>i, <2>2, <2>3, <2>4, <2>5
<1>9. ASSUME NEW x \in Chans, NEW j \in Ids, FillPush(x, j)
      PROVE  a1 + b1 + d1 + h1 + p1 + r1 + u1 <= 1 + l1
  <2>1. UNCHANGED <<rows, wire, up, pc, held, at, seen, losses>>
    BY <1>9 DEF FillPush, connVars, obsVars, tables
  <2>2. a1 = a /\ d1 = d /\ h1 = h /\ r1 = r /\ u1 = u /\ l1 = l
    BY <1>a, <1>d, <1>h, <1>r, <1>u, <1>l, <2>1
  <2>3. <<x, j>> \in Notes
    BY DEF Notes
  <2>4. PICK e \in 0..1 : e = Bit(<<x, j>> = n)
    BY DEF Bit
  <2>5. b1 = b + e
    <3>1. ch' = Append(ch, <<x, j>>)
      BY <1>9 DEF FillPush, Push
    <3>2. Occ(Append(ch, <<x, j>>), n) = Occ(ch, n) + Bit(<<x, j>> = n)
      <4> DEFINE m == <<x, j>>
      <4>1. m \in Notes
        BY <2>3
      <4> HIDE DEF m, n
      <4>2. Occ(Append(ch, m), n) = Occ(ch, n) + Bit(m = n)
        BY <1>t, <4>1, OccAppend DEF Bit
      <4> QED
        BY <4>2 DEF m
    <3> QED
      BY <1>b, <2>4, <3>1, <3>2
  <2>6. p1 + e <= p
    <3>1. p1 <= p
      BY <1>9, <1>q
    <3>2. CASE <<x, j>> = n
      <4>1. /\ at \in 1..Len(channels) /\ channels[at] = c
            /\ i \in gap /\ i \notin gap' /\ pc = "gap" /\ pc' = "gap"
        BY <1>9, <2>1, <3>2 DEF FillPush, StateOK
      <4>2. Pending(c, i)
        BY <4>1 DEF Pending
      <4>3. \A k \in 1..Len(channels) : channels[k] = c => k = at
        BY <4>1, ListenerAssumption
      <4>4. ~Pending(c, i)'
        BY <2>1, <4>1, <4>3, ChannelsNamed DEF Pending
      <4> QED
        BY <1>p, <2>4, <3>2, <4>2, <4>4 DEF Bit
    <3>3. CASE <<x, j>> # n
      <4>1. e = 0
        BY <2>4, <3>3 DEF Bit
      <4> QED
        BY <3>1, <4>1
    <3> QED
      BY <3>2, <3>3
  <2> QED
    BY <1>i, <2>2, <2>5, <2>6
<1>10. ASSUME Shutdown \/ UNCHANGED vars
      PROVE  a1 + b1 + d1 + h1 + p1 + r1 + u1 <= 1 + l1
  <2>1. UNCHANGED <<rows, wire, up, pc, held, at, gap, ch, seen, losses>>
    BY <1>10 DEF Shutdown, vars, connVars, fillVars, obsVars, tables
  <2>2. a1 = a /\ b1 = b /\ d1 = d /\ h1 = h /\ r1 = r /\ u1 = u /\ l1 = l
    BY <1>a, <1>b, <1>d, <1>h, <1>r, <1>u, <1>l, <2>1
  <2>3. p1 <= p
    BY <1>q, <2>1
  <2> QED
    BY <1>i, <2>2, <2>3
<1> QED
  BY <1>1, <1>2, <1>3, <1>4, <1>5, <1>6, <1>7, <1>8, <1>9, <1>10 DEF Next, Listen

\* However often the connection is lost, and whatever the gap fills find, a row
\* is handed out at most once more than connections were lost.
THEOREM RepeatsCorrect == Spec => []RepeatsNeedReconnect
<1>1. Init => CopiesOK
  <2> SUFFICES ASSUME Init, NEW c \in Chans, NEW i \in Ids
               PROVE  seen[c][i] + Occ(ch, <<c, i>>) + Occ(wire, <<c, i>>)
                        + Bit(held = <<<<c, i>>>>) + Bit(Pending(c, i))
                        + Bit(i \notin rows[c]) + Bit(~up /\ pc # "closed") <= 1 + losses
    BY Zenon DEF CopiesOK
  <2>1. seen[c][i] = 0 /\ losses = 0 /\ i \notin rows[c]
    BY DEF Init
  <2>2. Occ(ch, <<c, i>>) = 0 /\ Occ(wire, <<c, i>>) = 0
    BY PlacesEmpty DEF Init
  <2>3. Bit(held = <<<<c, i>>>>) = 0 /\ Bit(~up /\ pc # "closed") = 0
    BY DEF Init, Bit
  <2>4. Bit(Pending(c, i)) = 0 /\ Bit(i \notin rows[c]) = 1
    BY <2>1 DEF Init, Bit, Pending
  <2> QED
    BY <2>1, <2>2, <2>3, <2>4
<1>2. StateOK /\ StateOK' /\ CopiesOK /\ [Next]_vars => CopiesOK'
  BY CopiesStep
<1>3. StateOK /\ CopiesOK => RepeatsNeedReconnect
  <2> SUFFICES ASSUME StateOK, CopiesOK, NEW c \in Chans, NEW i \in Ids
               PROVE  seen[c][i] <= 1 + losses
    BY DEF RepeatsNeedReconnect
  <2>1. wire \in Seq(Notes) /\ ch \in Seq(Notes) /\ seen[c][i] \in Nat /\ losses \in Nat
    BY DEF StateOK, TypeOK, Notes
  <2>2. PICK a \in Nat, l \in Nat : a = seen[c][i] /\ l = losses
    BY <2>1
  <2>3. PICK b \in Nat, d \in Nat : b = Occ(ch, <<c, i>>) /\ d = Occ(wire, <<c, i>>)
    BY <2>1, PlacesFinite
  <2>4. PICK h \in Nat, p \in Nat, r \in Nat, u \in Nat :
          /\ h = Bit(held = <<<<c, i>>>>) /\ p = Bit(Pending(c, i))
          /\ r = Bit(i \notin rows[c]) /\ u = Bit(~up /\ pc # "closed")
    BY DEF Bit
  <2>5. a + b + d + h + p + r + u <= 1 + l
    BY <2>2, <2>3, <2>4 DEF CopiesOK
  <2>6. a <= 1 + l
    BY <2>5
  <2> QED
    BY <2>2, <2>6
<1> QED
  BY <1>1, <1>2, <1>3, StateCorrect, PTL DEF Spec

-----------------------------------------------------------------------------
(* Order *)

\* A commit is late, or above every row there is; late rows stay late.
LEMMA CommitIsLast ==
  ASSUME StateOK, NEW c \in Chans, NEW i \in Ids, Commit(c, i)
  PROVE  /\ i \in late'[c] \/ \A j \in rows[c] : j < i
         /\ \A d \in Chans : rows'[d] = IF d = c THEN rows[c] \cup {i} ELSE rows[d]
         /\ \A d \in Chans : late[d] \subseteq late'[d]
<1>1. i \notin rows[c] /\ rows[c] \subseteq Ids
  BY DEF Commit, StateOK, TypeOK
<1>2. \A j \in Ids : j \in Nat
  BY DEF Ids
<1>3. CASE \E j \in rows[c] : j > i
  <2>1. late' = [late EXCEPT ![c] = late[c] \cup {i}]
    BY <1>3 DEF Commit
  <2> QED
    BY <2>1 DEF Commit, StateOK, TypeOK
<1>4. CASE ~\E j \in rows[c] : j > i
  <2>1. late' = late
    BY <1>4 DEF Commit
  <2>2. \A j \in rows[c] : j < i
    BY <1>1, <1>2, <1>4
  <2> QED
    BY <2>1, <2>2 DEF Commit, StateOK, TypeOK
<1> QED
  BY <1>3, <1>4

\* Every step keeps what is on its way in id order, but for late rows.
LEMMA OrderStep ==
  ASSUME StateOK, StateOK', OrderOK, [Next]_vars
  PROVE  OrderOK'
<1>w. wire \in Seq(Notes) /\ wire' \in Seq(Notes)
  BY DEF StateOK, TypeOK, Notes
<1>e. Len(<<>>) = 0 /\ \A k \in 1..Len(<<>>) : FALSE
  OBVIOUS
<1>1. ASSUME NEW c \in Chans, NEW i \in Ids, Commit(c, i) PROVE OrderOK'
  <2>1. /\ i \in late'[c] \/ \A j \in rows[c] : j < i
        /\ \A d \in Chans : rows'[d] = IF d = c THEN rows[c] \cup {i} ELSE rows[d]
        /\ \A d \in Chans : late[d] \subseteq late'[d]
    BY <1>1, CommitIsLast, Zenon
  <2>2. UNCHANGED <<held, lastSeenID, pc, at, gap>>
    BY <1>1 DEF Commit, fillVars
  <2>3. \A k \in 1..Len(wire) : wire[k] \in Notes /\ wire[k][1] \in Chans
    BY <1>w, LenProperties DEF Notes
  <2>5. CASE wire' = wire
    <3>1. \A k \in 1..Len(wire') : wire'[k][2] \in rows'[wire'[k][1]]
      BY <2>1, <2>3, <2>5 DEF OrderOK
    <3>2. /\ \A d \in Chans, j \in Ids : held' = <<<<d, j>>>> => j \in rows'[d]
          /\ \A d \in Chans : lastSeenID'[d] \in rows'[d] \cup {0}
      BY <2>1, <2>2 DEF OrderOK
    <3>3. pc' = "gap" => gap' \subseteq rows'[channels[at']]
      BY <2>1, <2>2, ChannelsNamed DEF OrderOK, StateOK
    <3>4. \A k, l \in 1..Len(wire') :
            k < l /\ wire'[k][1] = wire'[l][1] =>
              wire'[k][2] < wire'[l][2] \/ wire'[l][2] \in late'[wire'[l][1]]
      BY <2>1, <2>3, <2>5, Zenon DEF OrderOK
    <3> QED
      BY <3>1, <3>2, <3>3, <3>4 DEF OrderOK
  <2>6. CASE wire' = Append(wire, <<c, i>>)
    <3> DEFINE n == <<c, i>>
    <3>0. n \in Notes /\ n[1] = c /\ n[2] = i
      BY DEF Notes
    <3> HIDE DEF n
    <3>1. /\ Len(wire') = Len(wire) + 1 /\ Len(wire) \in Nat
          /\ \A k \in 1..Len(wire) : wire'[k] = wire[k]
          /\ wire'[Len(wire) + 1] = n
      BY <1>w, <2>6, <3>0, AppendProperties, LenProperties DEF n
    <3>2. \A k \in 1..Len(wire') : k \in 1..Len(wire) \/ k = Len(wire) + 1
      BY <3>1
    <3>3. \A k \in 1..Len(wire') : wire'[k][2] \in rows'[wire'[k][1]]
      BY <2>1, <2>3, <3>0, <3>1, <3>2 DEF OrderOK
    <3>4. \A k, l \in 1..Len(wire') :
            k < l /\ wire'[k][1] = wire'[l][1] =>
              wire'[k][2] < wire'[l][2] \/ wire'[l][2] \in late'[wire'[l][1]]
      <4> SUFFICES ASSUME NEW k \in 1..Len(wire'), NEW l \in 1..Len(wire'), k < l,
                          wire'[k][1] = wire'[l][1]
                   PROVE  wire'[k][2] < wire'[l][2] \/ wire'[l][2] \in late'[wire'[l][1]]
        OBVIOUS
      <4>1. k \in 1..Len(wire)
        BY <3>1, <3>2
      <4>2. CASE l \in 1..Len(wire)
        <5>1. wire[k][2] < wire[l][2] \/ wire[l][2] \in late[wire[l][1]]
          BY <3>1, <4>1, <4>2 DEF OrderOK
        <5> QED
          BY <2>1, <2>3, <3>1, <4>1, <4>2, <5>1
      <4>3. CASE l = Len(wire) + 1
        <5>1. wire'[l][1] = c /\ wire'[l][2] = i /\ wire'[k] = wire[k]
          BY <3>0, <3>1, <4>1, <4>3
        <5>2. wire[k][2] \in rows[c]
          BY <4>1, <5>1 DEF OrderOK
        <5> QED
          BY <2>1, <5>1, <5>2
      <4> QED
        BY <3>2, <4>2, <4>3
    <3>5. /\ \A d \in Chans, j \in Ids : held' = <<<<d, j>>>> => j \in rows'[d]
          /\ \A d \in Chans : lastSeenID'[d] \in rows'[d] \cup {0}
      BY <2>1, <2>2 DEF OrderOK
    <3>6. pc' = "gap" => gap' \subseteq rows'[channels[at']]
      BY <2>1, <2>2, ChannelsNamed DEF OrderOK, StateOK
    <3> QED
      BY <3>3, <3>4, <3>5, <3>6 DEF OrderOK
  <2> QED
    BY <1>1, <2>5, <2>6 DEF Commit
<1>2. CASE RecvTakes
  <2>1. UNCHANGED <<rows, late, lastSeenID, pc, at, gap>> /\ pc = "recv"
    BY <1>2 DEF RecvTakes, fillVars, tables
  <2>2. /\ Len(wire) \in Nat \ {0} /\ Len(wire') = Len(wire) - 1
        /\ \A k \in 1..Len(wire') : wire'[k] = wire[k + 1]
        /\ held' = <<wire[1]>>
    BY <1>2, <1>w, HeadTailProperties, LenProperties, EmptySeq DEF RecvTakes
  <2>3. \A k \in 1..Len(wire') : k + 1 \in 1..Len(wire) /\ k \in Nat
    BY <2>2
  <2>4. \A k \in 1..Len(wire') : wire'[k][2] \in rows'[wire'[k][1]]
    BY <2>1, <2>2, <2>3 DEF OrderOK
  <2>5. \A k, l \in 1..Len(wire') :
          k < l /\ wire'[k][1] = wire'[l][1] =>
            wire'[k][2] < wire'[l][2] \/ wire'[l][2] \in late'[wire'[l][1]]
    <3> TAKE k, l \in 1..Len(wire')
    <3> HAVE k < l /\ wire'[k][1] = wire'[l][1]
    <3>1. k + 1 < l + 1 /\ k + 1 \in 1..Len(wire) /\ l + 1 \in 1..Len(wire)
      BY <2>3
    <3>2. wire'[k] = wire[k + 1] /\ wire'[l] = wire[l + 1]
      BY <2>2
    <3> QED
      BY <2>1, <3>1, <3>2 DEF OrderOK
  <2>6. 1 \in 1..Len(wire)
    BY <2>2
  <2>7. \A d \in Chans, j \in Ids : held' = <<<<d, j>>>> => j \in rows'[d]
    BY <2>1, <2>2, <2>6 DEF OrderOK
  <2> QED
    BY <2>1, <2>4, <2>5, <2>7 DEF OrderOK
<1>3. ASSUME NEW c \in Chans, NEW i \in Ids, RecvSends(c, i) PROVE OrderOK'
  <2>1. UNCHANGED <<rows, late, wire, pc, at, gap>> /\ held' = <<>> /\ i \in rows[c]
    BY <1>3 DEF RecvSends, connVars, fillVars, OrderOK, tables
  <2>2. \A d \in Chans : lastSeenID'[d] \in rows'[d] \cup {0}
    BY <1>3, <2>1 DEF RecvSends, Push, OrderOK, StateOK, TypeOK
  <2> QED
    BY <2>1, <2>2 DEF OrderOK
<1>4. ASSUME NEW c \in Chans, NEW i \in Ids, FillPush(c, i) PROVE OrderOK'
  <2>1. /\ UNCHANGED <<rows, late, wire, pc, at, held>> /\ gap' \subseteq gap /\ i \in rows[c]
        /\ pc = "gap"
    BY <1>4 DEF FillPush, connVars, OrderOK, tables
  <2>2. \A d \in Chans : lastSeenID'[d] \in rows'[d] \cup {0}
    BY <1>4, <2>1, Zenon DEF FillPush, Push, OrderOK, StateOK, TypeOK
  <2> QED
    BY <2>1, <2>2 DEF OrderOK
<1>5. CASE FillQuery
  <2>1. UNCHANGED <<rows, late, wire, at, held, lastSeenID>> /\ gap' \subseteq rows[channels[at]]
    BY <1>5 DEF FillQuery, connVars, Page, tables
  <2> QED
    BY <2>1 DEF OrderOK
<1>6. CASE FillSkips \/ FillFails \/ FillEnds
  <2>1. UNCHANGED <<rows, late, wire, held, lastSeenID>> /\ pc' # "gap"
    BY <1>6, NextChannelTyped DEF FillSkips, FillFails, FillEnds, connVars, tables
  <2> QED
    BY <2>1 DEF OrderOK
<1>7. CASE ConnLost \/ RecvFails
  <2>1. /\ UNCHANGED <<rows, late, lastSeenID, at, gap>> /\ wire' = <<>>
        /\ held' = held \/ held' = <<>>
        /\ pc' = "gap" => pc = "gap"
    BY <1>7 DEF ConnLost, RecvFails, fillVars, tables
  <2>2. \A d \in Chans, j \in Ids : held' = <<<<d, j>>>> => j \in rows'[d]
    BY <2>1 DEF OrderOK
  <2> QED
    BY <1>e, <2>1, <2>2 DEF OrderOK
<1>8. CASE Reconnect
  <2>1. UNCHANGED <<rows, late, wire, held, lastSeenID>> /\ pc' # "gap"
    BY <1>8 DEF Reconnect, tables
  <2> QED
    BY <2>1 DEF OrderOK
<1>9. CASE Shutdown \/ UNCHANGED vars \/ \E c \in Chans, i \in Ids : WorkerTakes(c, i)
  <2>1. UNCHANGED <<rows, late, wire, held, lastSeenID, pc, at, gap>>
    BY <1>9 DEF Shutdown, vars, WorkerTakes, connVars, fillVars, tables
  <2> QED
    BY <2>1 DEF OrderOK
<1> QED
  BY <1>1, <1>2, <1>3, <1>4, <1>5, <1>6, <1>7, <1>8, <1>9 DEF Next, Listen

-----------------------------------------------------------------------------
(* Nothing is missed *)

\* A channel that was given up, or has no baseline, is never watched again.
LEMMA WatchedShrinks ==
  ASSUME [Next]_vars
  PROVE  Watched' \subseteq Watched
<1>1. gaveUp \subseteq gaveUp' /\ noBaseline \subseteq noBaseline'
  <2>1. CASE \E c \in Chans, i \in Ids :
               Commit(c, i) \/ WorkerTakes(c, i) \/ RecvSends(c, i) \/ FillPush(c, i)
    BY <2>1 DEF Commit, WorkerTakes, RecvSends, FillPush, obsVars
  <2>2. CASE ConnLost \/ Shutdown \/ RecvTakes \/ RecvFails \/ Reconnect \/ UNCHANGED vars
    BY <2>2 DEF ConnLost, Shutdown, RecvTakes, RecvFails, Reconnect, vars, obsVars
  <2>3. CASE FillSkips \/ FillQuery \/ FillFails \/ FillEnds
    BY <2>3, Zenon DEF FillSkips, FillQuery, FillFails, FillEnds, obsVars
  <2> QED
    BY <2>1, <2>2, <2>3 DEF Next, Listen
<1> QED
  BY <1>1 DEF Watched

\* A row that is late stays late.
LEMMA LateGrows ==
  ASSUME StateOK, [Next]_vars, NEW c \in Chans
  PROVE  late[c] \subseteq late'[c]
<1>1. CASE \E d \in Chans, i \in Ids : Commit(d, i)
  BY <1>1, CommitIsLast, Zenon
<1>2. CASE ~\E d \in Chans, i \in Ids : Commit(d, i)
  <2>1. late' = late
    BY <1>2 DEF Next, Listen, WorkerTakes, RecvSends, FillPush, ConnLost, Shutdown,
                RecvTakes, RecvFails, Reconnect, FillSkips, FillQuery, FillFails,
                FillEnds, vars, tables
  <2> QED
    BY <2>1
<1> QED
  BY <1>1, <1>2

\* A row that is undelivered after a worker took another was so before.
LEMMA TakeDelivers ==
  ASSUME StateOK, NEW x \in Chans, NEW j \in Ids, WorkerTakes(x, j),
         NEW c \in Chans, NEW i \in Ids, i \in Undelivered(c)'
  PROVE  i \in Undelivered(c)
<1> DEFINE n == <<c, i>>
<1>1. UNCHANGED rows /\ ch \in Seq(Notes)
  BY DEF WorkerTakes, tables, StateOK, TypeOK, Notes
<1>2. ch # <<>> /\ Head(ch) = <<x, j>> /\ ch' = Tail(ch)
  BY DEF WorkerTakes
<1>3. seen \in [Chans -> [Ids -> Nat]] /\ seen' = [seen EXCEPT ![x][j] = @ + 1]
  BY Zenon DEF WorkerTakes, StateOK, TypeOK
<1>4. seen'[c][i] = IF <<c, i>> = <<x, j>> THEN seen[c][i] + 1 ELSE seen[c][i]
  BY <1>3
<1>5. seen[c][i] = 0 /\ n # <<x, j>>
  <2>1. seen'[c][i] = 0 /\ seen[c][i] \in Nat
    BY <1>3 DEF Undelivered
  <2> QED
    BY <1>4, <2>1
<1>6. Places(ch, n) = {}
  <2>1. Places(ch', n) = {}
    BY DEF Undelivered
  <2> HIDE DEF n
  <2> QED
    BY <1>1, <1>2, <1>5, <2>1, OccTail, Zenon
<1> QED
  BY <1>1, <1>5, <1>6 DEF Undelivered

\* Going on to the next channel loses only what was left of this one.
LEMMA PendingKept ==
  ASSUME StateOK, pc \in {"fill", "gap"}, NextChannel, NEW c \in Chans, NEW i \in Ids,
         Pending(c, i), c = channels[at] => pc = "gap" /\ gap = {}
  PROVE  Pending(c, i)'
<1>1. Len(channels) \in Nat /\ at \in 1..Len(channels)
  BY ChannelsNamed DEF StateOK
<1>2. PICK k \in 1..Len(channels) : channels[k] = c /\ k > at
  BY <1>1 DEF Pending
<1>3. pc' = "fill" /\ at' = at + 1
  BY <1>1, <1>2 DEF NextChannel
<1> QED
  BY <1>1, <1>2, <1>3 DEF Pending

\* A push delivers its row, and the rows left of its channel are above it.
LEMMA PushDelivers ==
  ASSUME StateOK, NEW x \in Chans, NEW j \in Ids, Push(x, j), UNCHANGED <<rows, seen>>,
         NEW c \in Chans, NEW i \in Ids, i \in Undelivered(c)'
  PROVE  /\ i \in Undelivered(c) /\ <<c, i>> # <<x, j>>
         /\ lastSeenID'[c] = IF c = x THEN j ELSE lastSeenID[c]
<1> DEFINE n == <<c, i>>
           m == <<x, j>>
<1>1. n \in Notes /\ m \in Notes /\ ch \in Seq(Notes) /\ ch' = Append(ch, m)
  BY DEF Notes, StateOK, TypeOK, Push
<1>2. i \in rows[c] /\ seen[c][i] = 0 /\ Places(ch', n) = {}
  BY DEF Undelivered
<1>3. Places(ch, n) = {} /\ m # n
  <2> HIDE DEF n, m
  <2> QED
    BY <1>1, <1>2, OccAppend
<1>4. lastSeenID'[c] = IF c = x THEN j ELSE lastSeenID[c]
  BY DEF Push, StateOK, TypeOK
<1> QED
  BY <1>2, <1>3, <1>4 DEF Undelivered

\* A query that is not cut off at its limit brings every row above the last one
\* seen; of the other channels it changes nothing.
LEMMA QueryBrings ==
  ASSUME StateOK, FillQuery, NEW c \in Chans, c \notin gaveUp',
         NEW i \in Undelivered(c), OnItsWay(c, i), InTurn(c, i)
  PROVE  OnItsWay(c, i)' /\ InTurn(c, i)'
<1>0. PICK x \in Chans : x = channels[at]
  BY ChannelsNamed, Zenon DEF FillQuery, StateOK
<1>1. UNCHANGED <<rows, lastSeenID, held, up, wire, at>> /\ pc = "fill" /\ pc' = "gap"
  BY DEF FillQuery, connVars, tables
<1>2. PICK y \in Nat : y = lastSeenID[x]
  BY DEF StateOK, TypeOK
<1>3. gap' = Page(x, y)
  BY <1>0, <1>2 DEF FillQuery
<1>4. Cardinality(gap') = gapFillLimit => x \in gaveUp'
  BY <1>0 DEF FillQuery
<1>5. CASE c = x
  <2>1. Page(x, y) = {k \in rows[x] : k > y}
    BY <1>3, <1>4, <1>5, PageIsAll DEF StateOK
  <2>2. i \in gap'
    BY <1>2, <1>3, <1>5, <2>1, Zenon DEF Undelivered, InTurn
  <2>3. Pending(c, i)'
    <3>1. at' \in 1..Len(channels) /\ Len(channels) \in Nat /\ channels[at'] = c
      BY <1>0, <1>1, <1>5, ChannelsNamed DEF FillQuery, StateOK
    <3> QED
      BY <1>1, <2>2, <3>1 DEF Pending
  <2> QED
    BY <1>1, <2>2, <2>3 DEF OnItsWay, InTurn
<1>6. CASE c # x
  <2>1. Pending(c, i) => Pending(c, i)'
    <3> SUFFICES ASSUME Pending(c, i) PROVE Pending(c, i)'
      OBVIOUS
    <3>1. PICK k \in 1..Len(channels) : channels[k] = c /\ k >= at
      BY <1>1 DEF Pending
    <3>2. k > at /\ k \in Nat
      BY <1>0, <1>1, <1>6, <3>1, ChannelsNamed DEF StateOK
    <3> QED
      BY <1>1, <3>1, <3>2 DEF Pending
  <2> QED
    BY <1>0, <1>1, <1>6, <2>1, Zenon DEF OnItsWay, InTurn
<1> QED
  BY <1>5, <1>6

\* Every step keeps an undelivered row that is not late on its way.
LEMMA ComingStep ==
  ASSUME StateOK, StateOK', OrderOK, ComingOK, [Next]_vars
  PROVE  ComingOK'
<1> SUFFICES ASSUME NEW c \in Watched', NEW i \in Undelivered(c)', i \notin late'[c]
             PROVE  OnItsWay(c, i)' /\ InTurn(c, i)'
  BY DEF ComingOK
<1>c. c \in Watched /\ c \in Chans
  BY WatchedShrinks DEF Watched
<1>i. i \in Ids /\ i \in Nat
  <2>1. i \in Ids
    BY <1>c DEF Undelivered, StateOK, TypeOK
  <2> QED
    BY <2>1 DEF Ids
<1>l. i \notin late[c]
  BY <1>c, LateGrows
<1> DEFINE n == <<c, i>>
<1>n. n \in Notes
  BY <1>c, <1>i DEF Notes
<1>s. wire \in Seq(Notes) /\ ch \in Seq(Notes)
  BY DEF StateOK, TypeOK, Notes
<1>o. ASSUME i \in Undelivered(c) PROVE OnItsWay(c, i) /\ InTurn(c, i)
  BY <1>c, <1>l, <1>o DEF ComingOK
<1>u. ASSUME UNCHANGED <<rows, late, seen, ch>> PROVE i \in Undelivered(c)
  BY <1>u DEF Undelivered
<1>1. ASSUME NEW x \in Chans, NEW j \in Ids, Commit(x, j)
      PROVE  OnItsWay(c, i)' /\ InTurn(c, i)'
  <2>1. UNCHANGED <<up, held, lastSeenID, pc, at, gap, seen, ch>>
    BY <1>1 DEF Commit, fillVars
  <2>2. /\ j \in late'[x] \/ \A k \in rows[x] : k < j
        /\ \A d \in Chans : rows'[d] = IF d = x THEN rows[x] \cup {j} ELSE rows[d]
    BY <1>1, CommitIsLast, Zenon
  <2> DEFINE m == <<x, j>>
  <2>3. m \in Notes
    BY DEF Notes
  <2>4. wire' = IF up THEN Append(wire, m) ELSE wire
    BY <1>1 DEF Commit
  <2>5. CASE i \in Undelivered(c)
    <3>1. OnItsWay(c, i) /\ InTurn(c, i)
      BY <1>o, <2>5
    <3>2. Places(wire, n) # {} => Places(wire', n) # {}
      <4> HIDE DEF n, m
      <4>1. Places(Append(wire, m), n) = {} => Places(wire, n) = {}
        BY <1>s, <2>3, PlacesAppend, Zenon
      <4> QED
        BY <2>4, <4>1, Zenon
    <3>3. Pending(c, i)' <=> Pending(c, i)
      BY <2>1 DEF Pending
    <3> QED
      BY <2>1, <3>1, <3>2, <3>3 DEF OnItsWay, InTurn
  <2>6. CASE i \notin Undelivered(c)
    <3>1. c = x /\ i = j
      BY <1>c, <2>1, <2>2, <2>6 DEF Undelivered
    <3>a. \A k \in rows[c] : k < i
      BY <2>2, <3>1
    <3>2. OnItsWay(c, i)'
      <4>1. CASE up
        <5>1. Places(wire', n) # {}
          <6>1. m = n /\ wire' = Append(wire, m)
            BY <2>4, <3>1, <4>1
          <6> HIDE DEF n, m
          <6>2. Places(Append(wire, m), n) = {} => m # n
            BY <1>s, <2>3, PlacesAppend, Zenon
          <6> QED
            BY <6>1, <6>2, Zenon
        <5> QED
          BY <5>1 DEF OnItsWay
      <4>2. CASE ~up
        BY <2>1, <4>2 DEF OnItsWay
      <4> QED
        BY <4>1, <4>2
    <3>3. i > lastSeenID'[c]
      BY <1>c, <1>i, <2>1, <3>a DEF OrderOK, Ids
    <3>4. \A k \in Ids : held' = <<<<c, k>>>> => k <= i
      <4> TAKE k \in Ids
      <4> HAVE held' = <<<<c, k>>>>
      <4>1. k < i
        BY <1>c, <2>1, <3>a DEF OrderOK
      <4>2. k \in Nat
        BY DEF Ids
      <4> QED
        BY <1>i, <4>1, <4>2
    <3>5. pc' = "gap" /\ c = channels[at'] => \A k \in gap' : k < i
      BY <2>1, <3>a DEF OrderOK
    <3> QED
      BY <3>2, <3>3, <3>4, <3>5 DEF InTurn
  <2> QED
    BY <2>5, <2>6
<1>2. ASSUME NEW x \in Chans, NEW j \in Ids, WorkerTakes(x, j)
      PROVE  OnItsWay(c, i)' /\ InTurn(c, i)'
  <2>1. UNCHANGED <<rows, late, up, wire, held, lastSeenID, pc, at, gap>>
    BY <1>2 DEF WorkerTakes, connVars, fillVars, tables
  <2>2. i \in Undelivered(c)
    BY <1>2, <1>c, <1>i, TakeDelivers
  <2>3. Pending(c, i)' <=> Pending(c, i)
    BY <2>1 DEF Pending
  <2> QED
    BY <1>o, <2>1, <2>2, <2>3, Zenon DEF OnItsWay, InTurn
<1>3. ASSUME ConnLost PROVE OnItsWay(c, i)' /\ InTurn(c, i)'
  <2>1. UNCHANGED <<rows, late, seen, ch, held, lastSeenID, pc, at, gap>> /\ ~up'
    BY <1>3 DEF ConnLost, fillVars, tables
  <2> QED
    BY <1>o, <1>u, <2>1, Zenon DEF OnItsWay, InTurn
<1>4. ASSUME RecvTakes PROVE OnItsWay(c, i)' /\ InTurn(c, i)'
  <2>1. /\ UNCHANGED <<rows, late, seen, ch, lastSeenID, pc, up>>
        /\ pc = "recv" /\ held = <<>> /\ wire # <<>> /\ wire' = Tail(wire)
        /\ held' = <<Head(wire)>>
    BY <1>4 DEF RecvTakes, tables
  <2>2. OnItsWay(c, i) /\ InTurn(c, i)
    BY <1>o, <1>u, <2>1
  <2>3. up /\ ~Pending(c, i)
    BY <2>1 DEF StateOK, Pending
  <2>4. Places(wire, n) # {}
    BY <2>1, <2>2, <2>3 DEF OnItsWay
  <2>5. Places(wire', n) # {} \/ Head(wire) = n
    <3> HIDE DEF n
    <3> QED
      BY <1>s, <2>1, <2>4, OccTail
  <2>6. OnItsWay(c, i)'
    BY <2>1, <2>5 DEF OnItsWay
  <2>7. \A j \in Ids : held' = <<<<c, j>>>> => j <= i
    <3> TAKE j \in Ids
    <3> HAVE held' = <<<<c, j>>>>
    <3>0. j \in Nat /\ Len(wire) \in Nat
      BY <1>s, LenProperties DEF Ids
    <3>1. PICK k \in 1..Len(wire) : wire[k] = n
      BY <2>4 DEF Places
    <3>2. wire[1] = <<c, j>>
      BY <2>1
    <3>3. wire[k][1] = c /\ wire[k][2] = i /\ wire[1][1] = c /\ wire[1][2] = j
      BY <3>1, <3>2
    <3>4. CASE k = 1
      BY <1>i, <3>3, <3>4
    <3>5. CASE k # 1
      <4>1. 1 < k /\ 1 \in 1..Len(wire)
        BY <3>0, <3>1, <3>5
      <4>2. j < i
        BY <1>l, <3>3, <4>1 DEF OrderOK
      <4> QED
        BY <1>i, <3>0, <4>2
    <3> QED
      BY <3>4, <3>5
  <2> QED
    BY <2>1, <2>2, <2>6, <2>7 DEF InTurn
<1>5. ASSUME NEW x \in Chans, NEW j \in Ids, RecvSends(x, j)
      PROVE  OnItsWay(c, i)' /\ InTurn(c, i)'
  <2>1. /\ UNCHANGED <<rows, late, seen, up, wire, pc, at, gap>>
        /\ held = <<<<x, j>>>> /\ held' = <<>> /\ pc = "recv" /\ Push(x, j)
    BY <1>5 DEF RecvSends, connVars, fillVars, StateOK, tables
  <2>2. /\ i \in Undelivered(c) /\ <<c, i>> # <<x, j>>
        /\ lastSeenID'[c] = IF c = x THEN j ELSE lastSeenID[c]
    BY <1>c, <1>i, <2>1, PushDelivers
  <2>3. OnItsWay(c, i) /\ InTurn(c, i)
    BY <1>o, <2>2
  <2>4. OnItsWay(c, i)'
    <3>1. held # <<<<c, i>>>>
      BY <2>1, <2>2
    <3>2. Pending(c, i)' <=> Pending(c, i)
      BY <2>1 DEF Pending
    <3> QED
      BY <2>1, <2>3, <3>1, <3>2 DEF OnItsWay
  <2>5. i > lastSeenID'[c]
    <3>1. CASE c = x
      <4>1. j <= i /\ j # i
        BY <2>1, <2>2, <2>3, <3>1 DEF InTurn
      <4>2. j \in Nat
        BY DEF Ids
      <4> QED
        BY <1>i, <2>2, <3>1, <4>1, <4>2
    <3>2. CASE c # x
      BY <2>2, <2>3, <3>2 DEF InTurn
    <3> QED
      BY <3>1, <3>2
  <2> QED
    BY <2>1, <2>4, <2>5 DEF InTurn
<1>6. ASSUME RecvFails PROVE OnItsWay(c, i)' /\ InTurn(c, i)'
  <2>1. UNCHANGED <<rows, late, seen, ch, lastSeenID>> /\ held' = <<>> /\ ~up' /\ pc' # "gap"
    BY <1>6 DEF RecvFails, tables
  <2> QED
    BY <1>o, <1>u, <2>1, Zenon DEF OnItsWay, InTurn
<1>7. ASSUME Reconnect PROVE OnItsWay(c, i)' /\ InTurn(c, i)'
  <2>1. UNCHANGED <<rows, late, seen, ch, lastSeenID, held>> /\ pc' # "gap"
    BY <1>7 DEF Reconnect, tables
  <2>2. InTurn(c, i)'
    BY <1>o, <1>u, <2>1 DEF InTurn
  <2>3. CASE pc' = "fill" /\ at' = 1
    <3>1. \A k \in 1..Len(channels) : k >= 1
      BY ChannelsNamed
    <3>2. Pending(c, i)'
      BY <1>c, <2>3, <3>1, ChannelsNamed DEF Pending
    <3> QED
      BY <2>2, <3>2 DEF OnItsWay
  <2>4. CASE UNCHANGED up
    <3>1. ~up'
      BY <1>7, <2>4 DEF Reconnect, StateOK
    <3> QED
      BY <2>2, <3>1 DEF OnItsWay
  <2> QED
    BY <1>7, <2>3, <2>4 DEF Reconnect
<1>8. ASSUME FillSkips \/ FillFails \/ FillEnds PROVE OnItsWay(c, i)' /\ InTurn(c, i)'
  <2>1. /\ UNCHANGED <<rows, late, seen, ch, lastSeenID, held, up, wire>>
        /\ pc \in {"fill", "gap"} /\ NextChannel
    BY <1>8 DEF FillSkips, FillFails, FillEnds, connVars, tables
  <2>2. OnItsWay(c, i) /\ InTurn(c, i)
    BY <1>o, <1>u, <2>1
  <2>3. c = channels[at] => pc = "gap" /\ gap = {}
    BY <1>8, Zenon DEF FillSkips, FillFails, FillEnds, Watched
  <2>4. Pending(c, i) => Pending(c, i)'
    BY <1>c, <1>i, <2>1, <2>3, PendingKept
  <2>5. pc' # "gap"
    BY <2>1, NextChannelTyped
  <2> QED
    BY <2>1, <2>2, <2>4, <2>5 DEF OnItsWay, InTurn
<1>9. ASSUME FillQuery PROVE OnItsWay(c, i)' /\ InTurn(c, i)'
  <2>1. UNCHANGED <<rows, late, seen, ch>>
    BY <1>9 DEF FillQuery, connVars, tables
  <2>2. OnItsWay(c, i) /\ InTurn(c, i) /\ i \in Undelivered(c)
    BY <1>o, <1>u, <2>1
  <2>3. c \notin gaveUp'
    BY DEF Watched
  <2> QED
    BY <1>9, <1>c, <2>2, <2>3, QueryBrings, Zenon
<1>10. ASSUME NEW x \in Chans, NEW j \in Ids, FillPush(x, j)
       PROVE  OnItsWay(c, i)' /\ InTurn(c, i)'
  <2>1. /\ UNCHANGED <<rows, late, seen, up, wire, pc, at, held>>
        /\ x = channels[at] /\ pc = "gap" /\ Push(x, j) /\ gap' = gap \ {j}
        /\ j \in gap /\ \A k \in gap : j <= k
    BY <1>10 DEF FillPush, connVars, tables
  <2>2. /\ i \in Undelivered(c) /\ <<c, i>> # <<x, j>>
        /\ lastSeenID'[c] = IF c = x THEN j ELSE lastSeenID[c]
    BY <1>c, <1>i, <2>1, PushDelivers
  <2>3. OnItsWay(c, i) /\ InTurn(c, i) /\ held = <<>>
    BY <1>o, <2>1, <2>2 DEF StateOK
  <2>4. CASE c = x
    <3>1. i # j /\ j \in Nat
      BY <2>2, <2>4 DEF Ids
    <3>2. i \in gap \/ \A k \in gap : k < i
      BY <2>1, <2>3, <2>4, Zenon DEF InTurn
    <3>3. i > j
      BY <1>i, <2>1, <3>1, <3>2
    <3>4. i \in gap' \/ \A k \in gap' : k < i
      BY <2>1, <3>1, <3>2
    <3>5. Pending(c, i) => Pending(c, i)'
      BY <2>1, <3>1 DEF Pending
    <3> QED
      BY <2>1, <2>2, <2>3, <2>4, <3>3, <3>4, <3>5, Zenon DEF OnItsWay, InTurn
  <2>5. CASE c # x
    <3>1. Pending(c, i) => Pending(c, i)'
      BY <2>1, <2>5 DEF Pending
    <3> QED
      BY <2>1, <2>2, <2>3, <2>5, <3>1, Zenon DEF OnItsWay, InTurn
  <2> QED
    BY <2>4, <2>5
<1>11. ASSUME Shutdown \/ UNCHANGED vars PROVE OnItsWay(c, i)' /\ InTurn(c, i)'
  <2>1. UNCHANGED <<rows, late, seen, ch, lastSeenID, held, up, wire, pc, at, gap>>
    BY <1>11 DEF Shutdown, vars, connVars, fillVars, tables
  <2>2. Pending(c, i)' <=> Pending(c, i)
    BY <2>1 DEF Pending
  <2> QED
    BY <1>o, <1>u, <2>1, <2>2 DEF OnItsWay, InTurn
<1> QED
  BY <1>1, <1>2, <1>3, <1>4, <1>5, <1>6, <1>7, <1>8, <1>9, <1>10, <1>11 DEF Next, Listen

\* Every step keeps the undelivered rows of the first connection at hand.
LEMMA PromptStep ==
  ASSUME StateOK, PromptOK, [Next]_vars
  PROVE  PromptOK'
<1> SUFFICES ASSUME losses' = 0, pc' # "closed"
             PROVE  /\ pc' = "recv" /\ up'
                    /\ \A c \in Chans : \A i \in Undelivered(c)' :
                         held' = <<<<c, i>>>> \/ Places(wire', <<c, i>>) # {}
  BY Zenon DEF PromptOK
<1>0. ~ConnLost /\ losses = 0 /\ pc # "closed"
  <2>1. ~ConnLost
    BY DEF ConnLost, StateOK
  <2>2. losses = 0
    BY <2>1 DEF Next, Listen, Commit, WorkerTakes, RecvSends, FillPush, Shutdown,
                RecvTakes, RecvFails, Reconnect, FillSkips, FillQuery, FillFails,
                FillEnds, vars, obsVars
  <2>3. pc # "closed"
    BY <2>1 DEF Next, Listen, Commit, WorkerTakes, RecvSends, FillPush, Shutdown,
                RecvTakes, RecvFails, Reconnect, FillSkips, FillQuery, FillFails,
                FillEnds, vars, StateOK
  <2> QED
    BY <2>1, <2>2, <2>3
<1>1. /\ pc = "recv" /\ up
      /\ \A c \in Chans : \A i \in Undelivered(c) :
           held = <<<<c, i>>>> \/ Places(wire, <<c, i>>) # {}
  BY <1>0, Zenon DEF PromptOK
<1>2. ~(RecvFails \/ Reconnect \/ FillSkips \/ FillQuery \/ FillFails \/ FillEnds)
  BY <1>1 DEF RecvFails, Reconnect, FillSkips, FillQuery, FillFails, FillEnds
<1>3. \A x \in Chans, j \in Ids : ~FillPush(x, j)
  BY <1>1 DEF FillPush
<1>4. pc' = "recv" /\ up'
  BY <1>0, <1>1, <1>2, <1>3
     DEF Next, Listen, Commit, WorkerTakes, RecvSends, Shutdown, RecvTakes, vars, connVars
<1> SUFFICES ASSUME NEW c \in Chans, NEW i \in Undelivered(c)'
             PROVE  held' = <<<<c, i>>>> \/ Places(wire', <<c, i>>) # {}
  BY <1>4
<1> DEFINE n == <<c, i>>
<1>i. i \in Ids /\ n \in Notes /\ wire \in Seq(Notes)
  <2>1. rows' \in [Chans -> SUBSET Ids]
    BY StateStep DEF StateOK, TypeOK
  <2> QED
    BY <2>1 DEF Undelivered, Notes, StateOK, TypeOK
<1>5. ASSUME NEW x \in Chans, NEW j \in Ids, Commit(x, j)
      PROVE  held' = <<n>> \/ Places(wire', n) # {}
  <2> DEFINE m == <<x, j>>
  <2>1. m \in Notes /\ wire' = Append(wire, m) /\ UNCHANGED <<held, seen, ch>>
    BY <1>1, <1>5 DEF Commit, Notes
  <2>2. \A d \in Chans : rows'[d] = IF d = x THEN rows[x] \cup {j} ELSE rows[d]
    BY <1>5, CommitIsLast
  <2>3. i \in Undelivered(c) \/ m = n
    BY <2>1, <2>2 DEF Undelivered
  <2>4. held = <<n>> \/ Places(wire, n) # {} \/ m = n
    BY <1>1, <2>3
  <2> HIDE DEF n, m
  <2> QED
    BY <1>i, <2>1, <2>4, OccAppend
<1>6. ASSUME NEW x \in Chans, NEW j \in Ids, WorkerTakes(x, j)
      PROVE  held' = <<n>> \/ Places(wire', n) # {}
  <2>1. UNCHANGED <<held, wire>>
    BY <1>6 DEF WorkerTakes, connVars
  <2>2. i \in Undelivered(c)
    BY <1>6, <1>i, TakeDelivers
  <2> QED
    BY <1>1, <2>1, <2>2
<1>7. ASSUME RecvTakes
      PROVE  held' = <<n>> \/ Places(wire', n) # {}
  <2>1. /\ held = <<>> /\ held' = <<Head(wire)>> /\ wire # <<>> /\ wire' = Tail(wire)
        /\ UNCHANGED <<rows, seen, ch>>
    BY <1>7 DEF RecvTakes, tables
  <2>2. i \in Undelivered(c)
    BY <2>1 DEF Undelivered
  <2>3. Places(wire, n) # {}
    BY <1>1, <2>1, <2>2
  <2> HIDE DEF n
  <2> QED
    BY <1>i, <2>1, <2>3, OccTail
<1>8. ASSUME NEW x \in Chans, NEW j \in Ids, RecvSends(x, j)
      PROVE  held' = <<n>> \/ Places(wire', n) # {}
  <2>1. held = <<<<x, j>>>> /\ Push(x, j) /\ UNCHANGED <<rows, seen, wire>>
    BY <1>8 DEF RecvSends, tables, connVars
  <2>2. i \in Undelivered(c) /\ n # <<x, j>>
    BY <1>i, <2>1, PushDelivers
  <2>3. held # <<n>>
    BY <2>1, <2>2
  <2> QED
    BY <1>1, <2>1, <2>2, <2>3
<1>9. ASSUME Shutdown \/ UNCHANGED vars
      PROVE  held' = <<n>> \/ Places(wire', n) # {}
  <2>1. UNCHANGED <<rows, seen, ch, held, wire>>
    BY <1>9 DEF Shutdown, vars, tables, connVars
  <2>2. i \in Undelivered(c)
    BY <2>1 DEF Undelivered
  <2> QED
    BY <1>1, <2>1, <2>2
<1> QED
  BY <1>0, <1>2, <1>3, <1>5, <1>6, <1>7, <1>8, <1>9 DEF Next, Listen

\* In whatever order rows commit, every row is handed out that is not excused,
\* and none more often than once for its commit and once for each reconnect.
THEOREM RowsHandedOut == Spec => []EachRowHandedOut
<1>1. Init => OrderOK /\ ComingOK /\ PromptOK
  <2> SUFFICES ASSUME Init PROVE OrderOK /\ ComingOK /\ PromptOK
    OBVIOUS
  <2>1. /\ \A c \in Chans : rows[c] = {} /\ lastSeenID[c] = 0
        /\ wire = <<>> /\ held = <<>> /\ pc = "recv"
    BY DEF Init
  <2>2. \A k \in 1..Len(<<>>) : FALSE
    OBVIOUS
  <2>3. OrderOK /\ ComingOK
    BY <2>1, <2>2, Zenon DEF OrderOK, ComingOK, Undelivered, Watched
  <2>4. PromptOK
    BY <2>1, Zenon DEF PromptOK, Undelivered, Init
  <2> QED
    BY <2>3, <2>4
<1>2. StateOK /\ StateOK' /\ OrderOK /\ ComingOK /\ PromptOK /\ [Next]_vars
        => OrderOK' /\ ComingOK' /\ PromptOK'
  BY OrderStep, ComingStep, PromptStep
<1>3. StateOK /\ ComingOK /\ PromptOK => NothingMissed
  <2> SUFFICES ASSUME StateOK, ComingOK, PromptOK, Quiet,
                      NEW c \in Chans, NEW i \in rows[c], ~(seen[c][i] > 0), ~Excused(c, i)
               PROVE  FALSE
    BY DEF NothingMissed
  <2>1. i \in Undelivered(c)
    <3>1. i \in Ids /\ seen[c][i] \in Nat
      BY DEF StateOK, TypeOK
    <3>2. seen[c][i] = 0
      BY <3>1
    <3> QED
      BY <3>2, PlacesEmpty DEF Undelivered, Quiet
  <2>2. Places(wire, <<c, i>>) = {} /\ ~Pending(c, i) /\ held = <<>> /\ up
    BY PlacesEmpty DEF Quiet, Pending
  <2>3. CASE i \notin late[c]
    <3>1. OnItsWay(c, i)
      BY <2>1, <2>3 DEF ComingOK, Watched, Excused
    <3> QED
      BY <2>2, <3>1 DEF OnItsWay
  <2>4. CASE losses = 0
    BY <2>1, <2>2, <2>4 DEF PromptOK, Quiet
  <2> QED
    BY <2>3, <2>4 DEF Excused, StateOK
<1>4. NothingMissed /\ RepeatsNeedReconnect => EachRowHandedOut
  BY DEF EachRowHandedOut
<1> QED
  BY <1>1, <1>2, <1>3, <1>4, StateCorrect, RepeatsCorrect, PTL DEF Spec
=============================================================================
