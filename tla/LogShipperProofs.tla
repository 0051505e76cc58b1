--------------------------- MODULE LogShipperProofs ---------------------------
(***************************************************************************)
(* Proof that the log shipper loses no entry silently, for any number of   *)
(* callers and calls, any sizes and limits, and any answers of the server. *)
(***************************************************************************)
EXTENDS LogShipper, FiniteSetTheorems, WellFoundedInduction, TLAPS

\* What the sums below need of the types; entries are only counted here.
Counted ==
  /\ accepted \in Nat /\ returned \in Nat
  /\ dropped \in Nat /\ sendFailed \in Nat /\ acked \in Nat
  /\ ch \in Seq(Nat) /\ entry \in Seq(Nat)
  /\ batch \in Seq(Nat) /\ retry \in Seq(Nat)
  /\ hpc \in [Callers -> {"idle", "entered", "pushing"}]
  /\ shut \in {"open", "closing", "waiting", "passed", "done"}
  /\ pc \in {"top", "select", "add", "full", "drained", "exit"}

\* The barrier of Shutdown: once it has been passed nobody is about to push,
\* and nothing is drained before.
Barrier ==
  /\ shut \in {"passed", "done"} => \A p \in Callers : hpc[p] # "pushing"
  /\ draining => shut = "done"
  /\ pc \in {"drained", "exit"} => draining

\* add holds one entry; the final flush leaves only the batch kept for a resend.
Held ==
  /\ IF pc = "add" THEN Len(entry) = 1 ELSE entry = <<>>
  /\ pc = "drained" => ch = <<>> /\ batch = <<>>

ShipInv == Counted /\ Barrier /\ Held /\ EveryEntryAccounted

\* Sequences grow and shrink by one.
LEMMA AppendLength ==
  ASSUME NEW q \in Seq(Nat), NEW e \in Nat
  PROVE  Append(q, e) \in Seq(Nat) /\ Len(Append(q, e)) = Len(q) + 1
  OBVIOUS

\* What the types and lengths of a queue's head and tail are.
LEMMA TailLength ==
  ASSUME NEW q \in Seq(Nat), q # <<>>
  PROVE  /\ Head(q) \in Nat
         /\ Tail(q) \in Seq(Nat) /\ Len(Tail(q)) = Len(q) - 1
         /\ <<Head(q)>> \in Seq(Nat) /\ Len(<<Head(q)>>) = 1
  OBVIOUS

\* A flush moves what it had to the server, to SendFailed() or to the batch it
\* keeps, and forgets nothing, whatever the two sends return.
LEMMA FlushConserves ==
  ASSUME Counted, NEW r \in Outcomes, NEW b \in Outcomes, flush(r, b)
  PROVE  /\ sendFailed' \in Nat /\ acked' \in Nat
         /\ batch' = <<>> /\ retry' \in Seq(Nat)
         /\ sendFailed' + acked' + Len(retry')
              = sendFailed + acked + Len(batch) + Len(retry)
<1>1. /\ sendFailed \in Nat /\ acked \in Nat
      /\ batch \in Seq(Nat) /\ retry \in Seq(Nat)
      /\ Len(batch) \in Nat /\ Len(retry) \in Nat /\ Len(<<>>) = 0
  BY DEF Counted
<1>2. r \in {"ok", "fails", "unanswered", "rejected"}
      /\ b \in {"ok", "fails", "unanswered", "rejected"}
  BY DEF Outcomes
<1>3. /\ batch' = <<>>
      /\ retry' = IF (retry # <<>> /\ retryable(r) /\ ~draining) \/ retryable(b)
                  THEN batch ELSE <<>>
  BY DEF flush
<1>4. /\ sendFailed' = sendFailed + Count(r # "ok", retry)
           + Count(b = "rejected" /\ ~(retry # <<>> /\ retryable(r) /\ ~draining), batch)
      /\ acked' = acked + Count(r = "ok", retry)
           + Count(b = "ok" /\ ~(retry # <<>> /\ retryable(r) /\ ~draining), batch)
  BY DEF flush, Observe
<1> DEFINE Sum == sendFailed + acked + Len(batch) + Len(retry)
<1>5. CASE retry # <<>> /\ retryable(r) /\ ~draining
  <2>1. retry' = batch /\ r # "ok"
    BY <1>3, <1>5 DEF retryable
  <2>2. sendFailed' = sendFailed + Len(retry) + 0 /\ acked' = acked + 0 + 0
    BY <1>4, <1>5, <2>1 DEF Count
  <2>3. Len(retry') = Len(batch) /\ retry' \in Seq(Nat)
    BY <1>1, <2>1
  <2>4. sendFailed' \in Nat /\ acked' \in Nat
    BY <1>1, <2>2
  <2>5. sendFailed' + acked' + Len(retry') = Sum
    BY <1>1, <2>2, <2>3
  <2> QED
    BY <1>3, <2>3, <2>4, <2>5
<1>6. CASE ~(retry # <<>> /\ retryable(r) /\ ~draining)
  <2> DEFINE R0 == IF r # "ok" THEN Len(retry) ELSE 0
             R1 == IF r = "ok" THEN Len(retry) ELSE 0
             B0 == IF b = "rejected" THEN Len(batch) ELSE 0
             B1 == IF b = "ok" THEN Len(batch) ELSE 0
             B2 == IF retryable(b) THEN Len(batch) ELSE 0
  <2>1. /\ retry' = IF retryable(b) THEN batch ELSE <<>>
        /\ sendFailed' = sendFailed + R0 + B0
        /\ acked' = acked + R1 + B1
    BY <1>3, <1>4, <1>6 DEF Count
  <2>2. retry' \in Seq(Nat) /\ Len(retry') = B2
    BY <1>1, <2>1
  <2>3. R0 \in Nat /\ R1 \in Nat /\ R0 + R1 = Len(retry)
    <3>1. Len(retry) \in Nat
      BY <1>1
    <3>2. CASE r = "ok"
      BY <3>1, <3>2
    <3>3. CASE r # "ok"
      BY <3>1, <3>3
    <3> QED
      BY <3>2, <3>3
  <2>4. B0 \in Nat /\ B1 \in Nat /\ B2 \in Nat /\ B0 + B1 + B2 = Len(batch)
    <3>1. Len(batch) \in Nat
      BY <1>1
    <3>2. CASE b = "ok"
      BY <3>1, <3>2 DEF retryable
    <3>3. CASE b = "rejected"
      BY <3>1, <3>3 DEF retryable
    <3>4. CASE retryable(b)
      <4>1. b # "ok" /\ b # "rejected"
        BY <3>4 DEF retryable
      <4>2. B0 = 0 /\ B1 = 0 /\ B2 = Len(batch)
        BY <1>1, <3>4, <4>1
      <4> HIDE DEF B0, B1, B2
      <4> QED
        BY <3>1, <4>2
    <3>5. b = "ok" \/ b = "rejected" \/ retryable(b)
      BY <1>2 DEF retryable
    <3> QED
      BY <3>2, <3>3, <3>4, <3>5
  <2> HIDE DEF R0, R1, B0, B1, B2
  <2>5. sendFailed' \in Nat /\ acked' \in Nat
    BY <1>1, <2>1, <2>3, <2>4
  <2>6. sendFailed' + acked' + Len(retry') = Sum
    <3>1. Len(retry') = B2 /\ sendFailed \in Nat /\ acked \in Nat
      BY <1>1, <2>2
    <3>2. Sum = sendFailed + acked + (B0 + B1 + B2) + (R0 + R1)
      BY <2>3, <2>4
    <3> HIDE DEF Sum
    <3>3. sendFailed' + acked' + B2 = Sum
      BY <2>1, <2>3, <2>4, <3>1, <3>2
    <3> QED
      BY <3>1, <3>3
  <2> QED
    BY <1>3, <2>2, <2>5, <2>6
<1> QED
  BY <1>5, <1>6

\* A flush of the loop before it exits keeps the account.
LEMMA FlushKeepsAccount ==
  ASSUME ShipInv, pc # "exit", \E r, b \in Outcomes : flush(r, b),
         pc' \in {"top", "add", "drained"}, UNCHANGED <<otherVars, ch, entry>>
  PROVE  Counted' /\ batch' = <<>> /\ EveryEntryAccounted'
<1>1. PICK r \in Outcomes, b \in Outcomes : flush(r, b)
  OBVIOUS
<1>2. /\ sendFailed' \in Nat /\ acked' \in Nat
      /\ batch' = <<>> /\ retry' \in Seq(Nat)
      /\ sendFailed' + acked' + Len(retry')
           = sendFailed + acked + Len(batch) + Len(retry)
  BY <1>1, FlushConserves DEF ShipInv
<1>3. UNCHANGED <<calls, hpc, accepted, returned, dropped, shut, expired, ch, entry>>
  BY DEF otherVars, handleVars, shutVars
<1>4. Counted'
  BY <1>2, <1>3 DEF ShipInv, Counted
<1>5. EveryEntryAccounted'
  <2>1. returned = dropped + sendFailed + acked
                     + (Len(ch) + Len(entry) + Len(batch) + Len(retry))
    BY DEF ShipInv, EveryEntryAccounted, Pending
  <2>2. Pending' = Len(ch) + Len(entry) + 0 + Len(retry')
    BY <1>2, <1>3 DEF Pending
  <2>3. /\ dropped \in Nat /\ sendFailed \in Nat /\ acked \in Nat
        /\ Len(ch) \in Nat /\ Len(entry) \in Nat /\ Len(batch) \in Nat
        /\ Len(retry) \in Nat /\ Len(retry') \in Nat
    BY <1>2 DEF ShipInv, Counted
  <2>4. returned' = returned /\ dropped' = dropped
    BY <1>3
  <2>5. returned = dropped + sendFailed' + acked'
                     + (Len(ch) + Len(entry) + 0 + Len(retry'))
    <3>1. sendFailed' + acked' + Len(retry')
            = sendFailed + acked + Len(batch) + Len(retry)
      BY <1>2
    <3>2. sendFailed' \in Nat /\ acked' \in Nat
      BY <1>2
    <3> DEFINE c == Len(ch)
               e == Len(entry)
               n == Len(batch)
               m == Len(retry)
               k == Len(retry')
    <3>3. /\ c \in Nat /\ e \in Nat /\ n \in Nat /\ m \in Nat /\ k \in Nat
          /\ dropped \in Nat /\ sendFailed \in Nat /\ acked \in Nat
          /\ returned = dropped + sendFailed + acked + (c + e + n + m)
          /\ sendFailed' + acked' + k = sendFailed + acked + n + m
      BY <2>1, <2>3, <3>1
    <3> HIDE DEF c, e, n, m, k
    <3>4. returned = dropped + sendFailed' + acked' + (c + e + 0 + k)
      <4>1. returned = (dropped + c + e) + (sendFailed + acked + n + m)
        BY <3>3
      <4>2. returned = (dropped + c + e) + (sendFailed' + acked' + k)
        BY <3>3, <4>1
      <4>3. c \in Nat /\ e \in Nat /\ k \in Nat /\ dropped \in Nat
        BY <3>3
      <4> QED
        BY <3>2, <4>2, <4>3
    <3> QED
      BY <3>4 DEF c, e, n, m, k
  <2> QED
    BY <2>2, <2>4, <2>5 DEF EveryEntryAccounted
<1> QED
  BY <1>2, <1>4, <1>5

\* What is on its way is a number of entries.
LEMMA PendingType == ASSUME Counted PROVE Pending \in Nat
<1>1. Len(ch) \in Nat /\ Len(entry) \in Nat /\ Len(batch) \in Nat /\ Len(retry) \in Nat
  BY DEF Counted
<1> QED
  BY <1>1 DEF Pending

\* The account, with what it rests on, is an inductive invariant.
THEOREM ShipInvariant == Spec => []ShipInv
<1>1. Init => ShipInv
  BY DEF Init, ShipInv, Counted, Barrier, Held, EveryEntryAccounted, Pending
<1>2. ShipInv /\ [Next]_vars => ShipInv'
  <2> SUFFICES ASSUME ShipInv, [Next]_vars PROVE ShipInv'
    OBVIOUS
  <2>1. Counted /\ Barrier /\ Held /\ EveryEntryAccounted /\ Pending \in Nat
    BY PendingType DEF ShipInv
  <2>2. CASE HandleRefused
    <3>1. Counted' /\ Barrier' /\ Held'
      BY <2>1, <2>2 DEF HandleRefused, loopVars, shutVars, batchVars, netVars,
         Counted, Barrier, Held
    <3>2. Pending' = Pending
      BY <2>2 DEF HandleRefused, loopVars, batchVars, Pending
    <3>3. EveryEntryAccounted'
      BY <2>1, <2>2, <3>2 DEF HandleRefused, loopVars, netVars, Counted,
         EveryEntryAccounted
    <3> QED
      BY <3>1, <3>3 DEF ShipInv
  <2>3. ASSUME NEW p \in Callers, HandleEnters(p) PROVE ShipInv'
    <3>1. Counted' /\ Barrier' /\ Held'
      BY <2>1, <2>3 DEF HandleEnters, loopVars, shutVars, batchVars, netVars,
         Counted, Barrier, Held
    <3>2. EveryEntryAccounted'
      BY <2>1, <2>3 DEF HandleEnters, loopVars, batchVars, netVars,
         EveryEntryAccounted, Pending
    <3> QED
      BY <3>1, <3>2 DEF ShipInv
  <2>4. ASSUME NEW p \in Callers, HandleChecks(p) PROVE ShipInv'
    <3>1. Counted' /\ Barrier' /\ Held'
      <4>1. UNCHANGED <<ch, accepted, loopVars>>
        BY <2>4 DEF HandleChecks
      <4>2. Held'
        BY <2>1, <4>1 DEF loopVars, batchVars, Held
      <4>3. CASE shut = "open"
        <5>1. /\ hpc' = [hpc EXCEPT ![p] = "pushing"]
              /\ returned' = returned /\ dropped' = dropped
          BY <2>4, <4>3 DEF HandleChecks
        <5> QED
          BY <2>1, <4>1, <4>2, <4>3, <5>1 DEF loopVars, shutVars, batchVars,
             netVars, Counted, Barrier
      <4>4. CASE shut # "open"
        <5>1. /\ hpc' = [hpc EXCEPT ![p] = "idle"]
              /\ returned' = returned + 1 /\ dropped' = dropped + 1
          BY <2>4, <4>4 DEF HandleChecks
        <5> QED
          BY <2>1, <4>1, <4>2, <5>1 DEF loopVars, shutVars, batchVars, netVars,
             Counted, Barrier
      <4> QED
        BY <4>3, <4>4
    <3>2. Pending' = Pending
      BY <2>4 DEF HandleChecks, loopVars, batchVars, Pending
    <3>3. EveryEntryAccounted'
      BY <2>1, <2>4, <3>2 DEF HandleChecks, loopVars, netVars, Counted,
         EveryEntryAccounted
    <3> QED
      BY <3>1, <3>3 DEF ShipInv
  <2>5. ASSUME NEW p \in Callers, HandlePushes(p) PROVE ShipInv'
    <3>1. shut \notin {"passed", "done"} /\ ~draining /\ pc \notin {"drained", "exit"}
      BY <2>1, <2>5 DEF HandlePushes, Barrier
    <3>2. CASE Len(ch) < BufferSize
      <4>1. /\ ch' = Append(ch, accepted + 1) /\ accepted' = accepted + 1
            /\ dropped' = dropped /\ returned' = returned + 1
            /\ hpc' = [hpc EXCEPT ![p] = "idle"] /\ UNCHANGED loopVars
        BY <2>5, <3>2 DEF HandlePushes
      <4>2. ch \in Seq(Nat) /\ accepted + 1 \in Nat
        BY <2>1 DEF Counted
      <4>3. ch' \in Seq(Nat) /\ Len(ch') = Len(ch) + 1
        BY <4>1, <4>2, AppendLength
      <4>4. Counted'
        BY <2>1, <4>1, <4>3 DEF loopVars, shutVars, batchVars, netVars, Counted
      <4>5. Barrier' /\ Held'
        BY <2>1, <3>1, <4>1 DEF loopVars, shutVars, batchVars, Counted, Barrier, Held
      <4>6. Pending' = Pending + 1
        <5>1. Pending = Len(ch) + Len(entry) + Len(batch) + Len(retry)
          BY <3>1 DEF Pending
        <5>2. Pending' = (Len(ch) + 1) + Len(entry) + Len(batch) + Len(retry)
          BY <3>1, <4>1, <4>3 DEF loopVars, batchVars, Pending
        <5>3. /\ Len(ch) \in Nat /\ Len(entry) \in Nat
              /\ Len(batch) \in Nat /\ Len(retry) \in Nat
          BY <2>1 DEF Counted
        <5> QED
          BY <5>1, <5>2, <5>3
      <4>7. EveryEntryAccounted'
        BY <2>1, <4>1, <4>6 DEF loopVars, netVars, Counted, EveryEntryAccounted
      <4> QED
        BY <4>4, <4>5, <4>7 DEF ShipInv
    <3>3. CASE ~(Len(ch) < BufferSize)
      <4>1. /\ ch' = ch /\ accepted' = accepted
            /\ dropped' = dropped + 1 /\ returned' = returned + 1
            /\ hpc' = [hpc EXCEPT ![p] = "idle"] /\ UNCHANGED loopVars
        BY <2>5, <3>3 DEF HandlePushes
      <4>2. Counted' /\ Barrier' /\ Held'
        BY <2>1, <4>1 DEF loopVars, shutVars, batchVars, netVars, Counted, Barrier,
           Held
      <4>3. Pending' = Pending
        BY <4>1 DEF loopVars, batchVars, Pending
      <4>4. EveryEntryAccounted'
        BY <2>1, <4>1, <4>3 DEF loopVars, netVars, Counted, EveryEntryAccounted
      <4> QED
        BY <4>2, <4>4 DEF ShipInv
    <3> QED
      BY <3>2, <3>3
  <2>6. CASE Shutdown \/ ContextExpires
    <3>1. UNCHANGED runVars
      BY <2>6 DEF Shutdown, ShutdownStarts, ShutdownLocks, ShutdownPasses,
         ShutdownCloses, ContextExpires
    <3>2. shut' \in {"open", "closing", "waiting", "passed", "done"}
      BY <2>1, <2>6 DEF Shutdown, ShutdownStarts, ShutdownLocks, ShutdownPasses,
         ShutdownCloses, ContextExpires, Counted
    <3>3. Counted'
      BY <2>1, <3>1, <3>2 DEF runVars, handleVars, batchVars, netVars, Counted
    <3>4. Barrier'
      BY <2>1, <2>6, <3>1 DEF Shutdown, ShutdownStarts, ShutdownLocks,
         ShutdownPasses, ShutdownCloses, ContextExpires, runVars, handleVars,
         Barrier
    <3>5. Held' /\ EveryEntryAccounted'
      BY <2>1, <3>1 DEF runVars, handleVars, batchVars, netVars, Held,
         EveryEntryAccounted, Pending
    <3> QED
      BY <3>3, <3>4, <3>5 DEF ShipInv
  <2>7. CASE Top \/ SelectDone
    <3>1. /\ UNCHANGED <<otherVars, ch, sendFailed, entry, batchVars, netVars>>
          /\ pc \in {"top", "select"} /\ pc' \in {"top", "select"}
          /\ draining' = draining \/ (draining' /\ shut = "done")
      BY <2>7 DEF Top, SelectDone
    <3>2. Counted' /\ Barrier' /\ Held'
      BY <2>1, <3>1 DEF otherVars, handleVars, shutVars, batchVars, netVars,
         Counted, Barrier, Held
    <3>3. EveryEntryAccounted'
      BY <2>1, <3>1 DEF otherVars, handleVars, batchVars, netVars,
         EveryEntryAccounted, Pending
    <3> QED
      BY <3>2, <3>3 DEF ShipInv
  <2>8. CASE Tick \/ AddFlushesFirst \/ AddFlushesAfter \/ DrainFlushes
    <3>1. /\ \E r, b \in Outcomes : flush(r, b)
          /\ UNCHANGED <<otherVars, draining, ch, entry>>
          /\ \/ pc \in {"select", "full"} /\ pc' = "top"
             \/ pc = "add" /\ pc' = "add"
             \/ pc = "top" /\ draining /\ ch = <<>> /\ pc' = "drained"
      BY <2>8 DEF Tick, AddFlushesFirst, AddFlushesAfter, DrainFlushes
    <3>2. pc # "exit" /\ pc' \in {"top", "add", "drained"}
      BY <3>1
    <3>3. Counted' /\ batch' = <<>> /\ EveryEntryAccounted'
      BY <3>1, <3>2, FlushKeepsAccount
    <3>4. Barrier' /\ Held'
      BY <2>1, <3>1, <3>3 DEF otherVars, handleVars, shutVars, Barrier, Held
    <3> QED
      BY <3>3, <3>4 DEF ShipInv
  <2>9. CASE Take
    <3>1. /\ ch # <<>> /\ entry' = <<Head(ch)>> /\ ch' = Tail(ch)
          /\ pc \in {"top", "select"} /\ pc' = "add"
          /\ UNCHANGED <<otherVars, draining, sendFailed, batchVars, netVars>>
      BY <2>9 DEF Take
    <3>2. /\ ch' \in Seq(Nat) /\ Len(ch') = Len(ch) - 1
          /\ entry' \in Seq(Nat) /\ Len(entry') = 1
      BY <2>1, <3>1, TailLength DEF Counted
    <3>3. Counted'
      BY <2>1, <3>1, <3>2 DEF otherVars, handleVars, shutVars, batchVars, netVars,
         Counted
    <3>4. Barrier' /\ Held'
      BY <2>1, <3>1, <3>2 DEF otherVars, handleVars, shutVars, Barrier, Held
    <3>5. Pending' = Pending
      <4>1. Pending = Len(ch) + Len(entry) + Len(batch) + Len(retry)
        BY <3>1 DEF Pending
      <4>2. Pending' = (Len(ch) - 1) + 1 + Len(batch) + Len(retry)
        BY <3>1, <3>2 DEF batchVars, Pending
      <4>3. Len(entry) = 0
        BY <2>1, <3>1 DEF Held
      <4>4. Len(ch) \in Nat /\ Len(batch) \in Nat /\ Len(retry) \in Nat
        BY <2>1 DEF Counted
      <4> QED
        BY <4>1, <4>2, <4>3, <4>4
    <3>6. EveryEntryAccounted'
      BY <2>1, <3>1, <3>5 DEF otherVars, handleVars, netVars, EveryEntryAccounted
    <3> QED
      BY <3>3, <3>4, <3>6 DEF ShipInv
  <2>10. CASE AddRejects \/ AddAppends
    <3>1. /\ pc = "add" /\ entry' = <<>> /\ pc' \in {"top", "full"}
          /\ UNCHANGED <<otherVars, draining, ch, retry, netVars>>
      BY <2>10 DEF AddRejects, AddAppends, batchVars
    <3>2. Len(entry) = 1 /\ entry \in Seq(Nat) /\ entry[1] \in Nat
      <4>1. Len(entry) = 1
        BY <2>1, <3>1 DEF Held
      <4>2. entry \in Seq(Nat)
        BY <2>1 DEF Counted
      <4>3. \A i \in 1..Len(entry) : entry[i] \in Nat
        BY <4>2
      <4>4. 1 \in 1..Len(entry)
        BY <4>1
      <4> QED
        BY <4>1, <4>2, <4>3, <4>4
    <3>3. /\ sendFailed' \in Nat /\ batch' \in Seq(Nat)
          /\ sendFailed' + Len(batch') = sendFailed + Len(batch) + 1
      <4>1. sendFailed \in Nat /\ batch \in Seq(Nat) /\ Len(batch) \in Nat
        BY <2>1 DEF Counted
      <4>2. CASE AddRejects
        BY <4>1, <4>2 DEF AddRejects, batchVars
      <4>3. CASE AddAppends
        <5>1. batch' = Append(batch, entry[1]) /\ sendFailed' = sendFailed
          BY <4>3 DEF AddAppends
        <5>2. batch' \in Seq(Nat) /\ Len(batch') = Len(batch) + 1
          BY <3>2, <4>1, <5>1, AppendLength
        <5> QED
          BY <4>1, <5>1, <5>2
      <4> QED
        BY <2>10, <4>2, <4>3
    <3>4. Counted'
      BY <2>1, <3>1, <3>3 DEF otherVars, handleVars, shutVars, netVars, Counted
    <3>5. Barrier' /\ Held'
      BY <2>1, <3>1 DEF otherVars, handleVars, shutVars, Barrier, Held
    <3>6. EveryEntryAccounted'
      <4>1. returned = dropped + sendFailed + acked
                         + (Len(ch) + 1 + Len(batch) + Len(retry))
        BY <2>1, <3>1, <3>2 DEF EveryEntryAccounted, Pending
      <4>2. Pending' = Len(ch) + 0 + Len(batch') + Len(retry)
        BY <3>1 DEF Pending
      <4>3. /\ dropped \in Nat /\ sendFailed \in Nat /\ acked \in Nat
            /\ Len(ch) \in Nat /\ Len(batch) \in Nat /\ Len(retry) \in Nat
        BY <2>1 DEF Counted
      <4>4. Len(batch') \in Nat
        BY <3>3
      <4>5. sendFailed' \in Nat /\ sendFailed' + Len(batch') = sendFailed + Len(batch) + 1
        BY <3>3
      <4>6. returned = (dropped + acked + Len(ch) + Len(retry))
                         + (sendFailed + Len(batch) + 1)
        BY <4>1, <4>3
      <4>7. returned = (dropped + acked + Len(ch) + Len(retry))
                         + (sendFailed' + Len(batch'))
        BY <4>5, <4>6
      <4>8. returned = dropped + sendFailed' + acked + Pending'
        <5>1. PICK d \in Nat, a \in Nat, c \in Nat, m \in Nat, f \in Nat, n \in Nat :
                /\ d = dropped /\ a = acked /\ c = Len(ch) /\ m = Len(retry)
                /\ f = sendFailed' /\ n = Len(batch')
          BY <4>3, <4>4, <4>5
        <5>2. returned = (d + a + c + m) + (f + n) /\ Pending' = c + 0 + n + m
          BY <4>2, <4>7, <5>1
        <5>3. (d + a + c + m) + (f + n) = d + f + a + (c + 0 + n + m)
          OBVIOUS
        <5> QED
          BY <5>1, <5>2, <5>3
      <4> QED
        BY <3>1, <4>8 DEF otherVars, handleVars, netVars, EveryEntryAccounted
    <3> QED
      BY <3>4, <3>5, <3>6 DEF ShipInv
  <2>11. CASE DrainExpires \/ DrainEnds
    <3>1. /\ pc \in {"top", "drained"} /\ draining /\ pc' = "exit"
          /\ UNCHANGED <<otherVars, draining, ch, entry, batchVars, netVars>>
      BY <2>1, <2>11 DEF DrainExpires, DrainEnds, Barrier
    <3>2. /\ Len(entry) = 0
          /\ dropped \in Nat /\ sendFailed \in Nat /\ acked \in Nat
          /\ Len(ch) \in Nat /\ Len(batch) \in Nat /\ Len(retry) \in Nat
      BY <2>1, <3>1 DEF Counted, Held
    <3>3. sendFailed' = sendFailed + Len(batch) + Len(retry) + Len(ch)
      <4>1. CASE DrainExpires
        BY <4>1 DEF DrainExpires
      <4>2. CASE DrainEnds
        <5>1. Len(ch) = 0 /\ Len(batch) = 0 /\ sendFailed' = sendFailed + Len(retry)
          BY <2>1, <4>2 DEF DrainEnds, Held
        <5> QED
          BY <3>2, <5>1
      <4> QED
        BY <2>11, <4>1, <4>2
    <3>4. sendFailed' \in Nat
      BY <3>2, <3>3
    <3>5. Counted'
      BY <2>1, <3>1, <3>4 DEF otherVars, handleVars, shutVars, batchVars, netVars,
         Counted
    <3>6. Barrier' /\ Held'
      BY <2>1, <3>1 DEF otherVars, handleVars, shutVars, Barrier, Held
    <3>7. EveryEntryAccounted'
      <4>1. returned = dropped + sendFailed + acked
                         + (Len(ch) + 0 + Len(batch) + Len(retry))
        BY <2>1, <3>1, <3>2 DEF EveryEntryAccounted, Pending
      <4>2. returned = dropped + sendFailed' + acked + 0
        BY <3>2, <3>3, <4>1
      <4>3. Pending' = 0
        BY <3>1 DEF Pending
      <4> QED
        BY <3>1, <4>2, <4>3 DEF otherVars, handleVars, netVars, EveryEntryAccounted
    <3> QED
      BY <3>5, <3>6, <3>7 DEF ShipInv
  <2>12. CASE UNCHANGED vars
    BY <2>1, <2>12 DEF vars, handleVars, shutVars, batchVars, netVars, ShipInv,
       Counted, Barrier, Held, EveryEntryAccounted, Pending
  <2> QED
    BY <2>2, <2>3, <2>4, <2>5, <2>6, <2>7, <2>8, <2>9, <2>10, <2>11, <2>12
       DEF Next, Loop
<1> QED
  BY <1>1, <1>2, PTL DEF Spec

\* "no entry is lost silently after shutdown": every entry of a call of Handle
\* that has returned is acknowledged, counted once in Dropped() or SendFailed(),
\* or pending, and nothing is pending when the goroutine has exited.
THEOREM NoEntryLost == Spec => []EveryEntryAccounted
  BY ShipInvariant, PTL DEF ShipInv

-----------------------------------------------------------------------------
(* The size of a request *)

\* A non-empty set of naturals has a least element.
LEMMA HasLeast ==
  ASSUME NEW S, S \subseteq Nat, S # {}
  PROVE  \E x \in S : \A y \in S : x <= y
<1>1. PICK x \in S : \A y \in S : ~(<<y, x>> \in OpToRel(<, Nat))
  BY WFMin, NatLessThanWellFounded
<1>2. ASSUME NEW y \in S PROVE x <= y
  <2>1. ~(y < x)
    BY <1>1, Zenon DEF OpToRel
  <2> QED
    BY <2>1
<1> QED
  BY <1>2

\* Running totals exist: the recursion in Bytes defines a function.
LEMMA TotalsExist ==
  ASSUME NEW N \in Nat, NEW w \in [1..N -> Nat], NEW c \in Nat
  PROVE  \E f \in [0..N -> Nat] : f[0] = c /\ \A n \in 1..N : f[n] = f[n - 1] + w[n]
<1> DEFINE P(m) == \E f \in [0..m -> Nat] :
                     f[0] = c /\ \A n \in 1..m : f[n] = f[n - 1] + w[n]
           S == {m \in 0..N : ~P(m)}
<1>1. SUFFICES ASSUME S # {} PROVE FALSE
  <2>1. N \in 0..N
    OBVIOUS
  <2> QED
    BY <2>1
<1>2. PICK m \in S : \A y \in S : m <= y
  <2>1. S \subseteq Nat
    OBVIOUS
  <2> HIDE DEF S
  <2> QED
    BY <1>1, <2>1, HasLeast
<1>3. m \in 0..N /\ ~P(m)
  OBVIOUS
<1>4. m # 0
  <2> SUFFICES ASSUME m = 0 PROVE FALSE
    OBVIOUS
  <2> DEFINE g == [i \in 0..0 |-> c]
  <2>1. g \in [0..m -> Nat] /\ g[0] = c /\ \A n \in 1..m : g[n] = g[n - 1] + w[n]
    OBVIOUS
  <2> HIDE DEF g
  <2> QED
    BY <1>3, <2>1
<1>5. P(m - 1)
  <2>1. m - 1 \in 0..N /\ ~(m <= m - 1)
    BY <1>3, <1>4
  <2>2. m - 1 \notin S
    BY <1>2, <2>1
  <2> QED
    BY <2>1, <2>2
<1>6. PICK f \in [0..(m - 1) -> Nat] :
        f[0] = c /\ \A n \in 1..(m - 1) : f[n] = f[n - 1] + w[n]
  BY <1>5
<1> DEFINE g == [i \in 0..m |-> IF i = m THEN f[m - 1] + w[m] ELSE f[i]]
<1>7. f[m - 1] + w[m] \in Nat
  <2>1. m - 1 \in 0..(m - 1) /\ m \in 1..N
    BY <1>3, <1>4
  <2> QED
    BY <1>6, <2>1
<1>8. g \in [0..m -> Nat] /\ g[0] = c
  BY <1>3, <1>4, <1>6, <1>7
<1>9. ASSUME NEW n \in 1..m PROVE g[n] = g[n - 1] + w[n]
  <2>1. n - 1 \in 0..(m - 1) /\ n - 1 # m /\ n - 1 \in 0..m /\ n \in 0..m
    BY <1>3
  <2>2. g[n - 1] = f[n - 1]
    BY <2>1
  <2>3. CASE n = m
    BY <2>1, <2>2, <2>3
  <2>4. CASE n # m
    <3>1. n \in 1..(m - 1)
      BY <1>3, <2>4
    <3> QED
      BY <1>6, <2>1, <2>2, <2>4, <3>1
  <2> QED
    BY <2>3, <2>4
<1> HIDE DEF g
<1> QED
  BY <1>3, <1>8, <1>9

Comma(n) == IF n = 1 THEN 0 ELSE 1
Grows(N, es, f) == \A n \in 1..N : f[n] = f[n - 1] + Size[es[n]] + Comma(n)

\* And they are what the recursion says, for each function that satisfies it.
LEMMA TotalsUnique ==
  ASSUME NEW N \in Nat, NEW es, NEW f, NEW g,
         f[0] = g[0], Grows(N, es, f), Grows(N, es, g)
  PROVE  \A n \in 0..N : f[n] = g[n]
<1> DEFINE S == {n \in 0..N : f[n] # g[n]}
<1>1. SUFFICES ASSUME S # {} PROVE FALSE
  OBVIOUS
<1>2. PICK m \in S : \A y \in S : m <= y
  <2>1. S \subseteq Nat
    OBVIOUS
  <2> HIDE DEF S
  <2> QED
    BY <1>1, <2>1, HasLeast
<1>3. m \in 1..N /\ f[m] # g[m]
  OBVIOUS
<1>4. m - 1 \in 0..N /\ ~(m <= m - 1)
  BY <1>3
<1>5. f[m - 1] = g[m - 1]
  BY <1>2, <1>4
<1> QED
  BY <1>3, <1>5 DEF Grows

\* f holds the sizes of the requests with the first n entries of es.
Totals(es, f) ==
  /\ f \in [0..Len(es) -> Nat]
  /\ f[0] = emptyRequestBytes
  /\ Grows(Len(es), es, f)

\* Bytes adds an entry's size and a separator at each index of the batch; the least index where
\* it did not would contradict the definition.
LEMMA BytesTotal ==
  ASSUME NEW es \in Seq(Entries)
  PROVE  \E f : Totals(es, f) /\ Bytes(es) = f[Len(es)]
<1> DEFINE N == Len(es)
           w == [n \in 1..N |-> Size[es[n]] + Comma(n)]
           E(f) == [n \in 0..N |-> IF n = 0 THEN emptyRequestBytes
                                   ELSE f[n - 1] + Size[es[n]] + (IF n = 1 THEN 0 ELSE 1)]
<1>1. N \in Nat /\ emptyRequestBytes \in Nat
  BY ShipperAssumption
<1>2. \A n \in 1..N : Size[es[n]] \in Nat
  BY ShipperAssumption
<1>3. w \in [1..N -> Nat]
  BY <1>2 DEF Comma
<1>4. PICK f \in [0..N -> Nat] :
        f[0] = emptyRequestBytes /\ \A n \in 1..N : f[n] = f[n - 1] + w[n]
  <2> HIDE DEF N, w
  <2> QED
    BY <1>1, <1>3, TotalsExist
<1>5. ASSUME NEW n \in 1..N PROVE f[n] = f[n - 1] + Size[es[n]] + Comma(n)
  <2>1. f[n] = f[n - 1] + (Size[es[n]] + Comma(n))
    BY <1>4
  <2>2. f[n - 1] \in Nat /\ Size[es[n]] \in Nat /\ Comma(n) \in Nat
    <3>1. n - 1 \in 0..N
      BY <1>1
    <3> QED
      BY <1>2, <1>4, <3>1 DEF Comma
  <2> QED
    BY <2>1, <2>2
<1>6. f = E(f)
  <2> SUFFICES ASSUME NEW n \in 0..N PROVE f[n] = E(f)[n]
    BY <1>4
  <2>1. CASE n = 0
    BY <1>4, <2>1
  <2>2. CASE n # 0
    <3>1. n \in 1..N
      BY <1>1, <2>2
    <3> QED
      BY <1>5, <2>2, <3>1 DEF Comma
  <2> QED
    BY <2>1, <2>2
<1> DEFINE u == CHOOSE g : g = E(g)
<1>7. u = E(u)
  BY <1>6
<1>8. Bytes(es) = u[N]
  BY DEF Bytes
<1>9. u[0] = emptyRequestBytes /\ Grows(N, es, u)
  <2>1. ASSUME NEW n \in 0..N
        PROVE  u[n] = IF n = 0 THEN emptyRequestBytes
                      ELSE u[n - 1] + Size[es[n]] + (IF n = 1 THEN 0 ELSE 1)
    <3>1. u[n] = E(u)[n]
      BY <1>7
    <3> HIDE DEF u
    <3> QED
      BY <3>1
  <2> HIDE DEF u
  <2>2. 0 \in 0..N /\ \A n \in 1..N : n \in 0..N /\ n # 0
    BY <1>1
  <2> HIDE DEF N
  <2> QED
    BY <2>1, <2>2 DEF Comma, Grows
<1>10. u[N] = f[N]
  <2> HIDE DEF N, w, u
  <2>1. \A n \in 0..N : u[n] = f[n]
    <3>1. u[0] = f[0] /\ Grows(N, es, f)
      BY <1>4, <1>5, <1>9 DEF Grows
    <3> QED
      BY <1>1, <1>9, <3>1, TotalsUnique
  <2> QED
    BY <1>1, <2>1
<1>11. Totals(es, f)
  BY <1>4, <1>5 DEF Totals, Grows
<1> HIDE DEF N, w, E, u
<1>12. Bytes(es) = f[N]
  BY <1>8, <1>10
<1> QED
  BY <1>11, <1>12, Zenon DEF N

\* The size of a request without entries, and of one with an entry more.
LEMMA BytesEmpty == Bytes(<<>>) = emptyRequestBytes
<1>1. PICK f : Totals(<<>>, f) /\ Bytes(<<>>) = f[Len(<<>>)]
  <2>1. <<>> \in Seq(Entries)
    OBVIOUS
  <2> QED
    BY <2>1, BytesTotal
<1> QED
  BY <1>1 DEF Totals

\* An entry appended to a batch adds its size, and a separator unless it is the first.
LEMMA BytesAppend ==
  ASSUME NEW es \in Seq(Entries), NEW e \in Entries
  PROVE  /\ Bytes(es) \in Nat
         /\ Bytes(Append(es, e)) = Bytes(es) + Size[e] + (IF es = <<>> THEN 0 ELSE 1)
<1> DEFINE N == Len(es)
           es2 == Append(es, e)
<1>1. /\ N \in Nat /\ es2 \in Seq(Entries) /\ Len(es2) = N + 1
      /\ es2[N + 1] = e /\ \A n \in 1..N : es2[n] = es[n]
      /\ (es = <<>> <=> N = 0)
  OBVIOUS
<1>2. PICK f : Totals(es, f) /\ Bytes(es) = f[N]
  BY BytesTotal
<1> HIDE DEF es2
<1>3. PICK g : Totals(es2, g) /\ Bytes(es2) = g[N + 1]
  BY <1>1, BytesTotal
<1>4. f \in [0..N -> Nat] /\ f[0] = emptyRequestBytes /\ Grows(N, es, f)
  BY <1>2 DEF Totals
<1>5. g[0] = emptyRequestBytes /\ Grows(N + 1, es2, g)
  BY <1>1, <1>3 DEF Totals
<1> HIDE DEF N
<1>6. \A n \in 0..N : f[n] = g[n]
  <2>1. Grows(N, es, g) /\ f[0] = g[0]
    <3>1. \A n \in 1..N : n \in 1..(N + 1)
      BY <1>1
    <3> QED
      BY <1>1, <1>4, <1>5, <3>1 DEF Grows
  <2> QED
    BY <1>1, <1>4, <2>1, TotalsUnique
<1>7. f[N] = g[N] /\ f[N] \in Nat
  BY <1>1, <1>4, <1>6
<1>8. g[N + 1] = g[N] + Size[e] + Comma(N + 1)
  <2>1. N + 1 \in 1..(N + 1) /\ (N + 1) - 1 = N
    BY <1>1
  <2> QED
    BY <1>1, <1>5, <2>1 DEF Grows
<1>9. Comma(N + 1) = IF es = <<>> THEN 0 ELSE 1
  BY <1>1 DEF Comma
<1> QED
  BY <1>2, <1>3, <1>7, <1>8, <1>9 DEF es2

-----------------------------------------------------------------------------
(* The requests the server gets *)

\* What a step of the shipper does to the entries it holds.
Still ==
  /\ UNCHANGED <<accepted, ch, entry, batch, batchBytes, retry, requests>>
  /\ pc = "full" => pc' = "full"

Pushed ==
  /\ ch' = Append(ch, accepted + 1) /\ accepted' = accepted + 1
  /\ UNCHANGED <<entry, batch, batchBytes, retry, requests, pc>>

Taken ==
  /\ ch # <<>> /\ entry = <<>>
  /\ entry' = <<Head(ch)>> /\ ch' = Tail(ch)
  /\ UNCHANGED <<accepted, batch, batchBytes, retry, requests>>
  /\ pc # "full" /\ pc' # "full"

Rejected ==
  /\ entry' = <<>>
  /\ UNCHANGED <<accepted, ch, batch, batchBytes, retry, requests>>
  /\ pc # "full" /\ pc' # "full"

Flushed ==
  /\ \E r, b \in Outcomes : flush(r, b)
  /\ UNCHANGED <<accepted, ch, entry>>
  /\ pc' # "full"

\* What a step does to the queue of entries is one of six things.
LEMMA StepKinds ==
  ASSUME ShipInv, [Next]_vars
  PROVE  Still \/ Pushed \/ Taken \/ Rejected \/ AddAppends \/ Flushed
<1> USE DEF batchVars, netVars, otherVars, handleVars
<1>1. CASE HandleRefused
  BY <1>1 DEF HandleRefused, loopVars, Still
<1>2. ASSUME NEW p \in Callers, HandleEnters(p) \/ HandleChecks(p)
      PROVE  Still
  BY <1>2 DEF HandleEnters, HandleChecks, loopVars, Still
<1>3. ASSUME NEW p \in Callers, HandlePushes(p) PROVE Still \/ Pushed
  BY <1>3 DEF HandlePushes, loopVars, Still, Pushed
<1>4. CASE Shutdown \/ ContextExpires
  BY <1>4 DEF Shutdown, ShutdownStarts, ShutdownLocks, ShutdownPasses, ShutdownCloses,
     ContextExpires, runVars, Still
<1>5. CASE Top \/ SelectDone \/ DrainExpires \/ DrainEnds
  BY <1>5 DEF Top, SelectDone, DrainExpires, DrainEnds, Still
<1>6. CASE Tick \/ AddFlushesFirst \/ AddFlushesAfter \/ DrainFlushes
  BY <1>6 DEF Tick, AddFlushesFirst, AddFlushesAfter, DrainFlushes, Flushed
<1>7. CASE Take
  <2>1. entry = <<>>
    BY <1>7 DEF Take, ShipInv, Held
  <2> QED
    BY <1>7, <2>1 DEF Take, Taken
<1>8. CASE AddRejects
  BY <1>8 DEF AddRejects, Rejected
<1>9. CASE UNCHANGED vars
  BY <1>9 DEF vars, Still
<1> QED
  BY <1>1, <1>2, <1>3, <1>4, <1>5, <1>6, <1>7, <1>8, <1>9 DEF Next, Loop

\* Every call that has begun has returned or is in flight, so no more entries
\* are accepted than calls are made.
InFlight == {p \in Callers : hpc[p] # "idle"}

CallsOK ==
  /\ calls \in Nat /\ calls <= MaxCalls
  /\ IsFiniteSet(InFlight) /\ calls = returned + Cardinality(InFlight)
  /\ accepted <= returned

\* Every call that has begun still has returned or is in flight, after every step.
LEMMA CallsStep ==
  ASSUME ShipInv, CallsOK, [Next]_vars
  PROVE  CallsOK'
<1>1. /\ MaxCalls \in Nat /\ accepted \in Nat /\ returned \in Nat /\ calls \in Nat
      /\ Cardinality(InFlight) \in Nat
  BY ShipperAssumption, FS_CardinalityType DEF ShipInv, Counted, CallsOK
<1>2. CASE HandleRefused
  BY <1>1, <1>2 DEF HandleRefused, CallsOK, InFlight
<1>3. ASSUME NEW p \in Callers, HandleEnters(p) PROVE CallsOK'
  <2>1. p \notin InFlight /\ InFlight' = InFlight \cup {p}
    BY <1>3 DEF HandleEnters, InFlight, ShipInv, Counted
  <2>2. IsFiniteSet(InFlight') /\ Cardinality(InFlight') = Cardinality(InFlight) + 1
    BY <2>1, FS_AddElement DEF CallsOK
  <2>3. /\ calls < MaxCalls /\ calls' = calls + 1
        /\ accepted' = accepted /\ returned' = returned
    BY <1>3 DEF HandleEnters
  <2> QED
    BY <1>1, <2>2, <2>3 DEF CallsOK
<1>4. ASSUME NEW p \in Callers, hpc[p] # "idle", hpc' = [hpc EXCEPT ![p] = "idle"],
             returned' = returned + 1, calls' = calls, accepted' \in {accepted, accepted + 1}
      PROVE  CallsOK'
  <2>1. p \in InFlight /\ InFlight' = InFlight \ {p}
    BY <1>4 DEF InFlight, ShipInv, Counted
  <2>2. IsFiniteSet(InFlight') /\ Cardinality(InFlight') = Cardinality(InFlight) - 1
    BY <2>1, FS_RemoveElement DEF CallsOK
  <2> QED
    BY <1>1, <1>4, <2>2 DEF CallsOK
<1>5. ASSUME NEW p \in Callers, HandleChecks(p) PROVE CallsOK'
  <2>1. CASE shut = "open"
    <3>1. InFlight' = InFlight
      BY <1>5, <2>1 DEF HandleChecks, InFlight, ShipInv, Counted
    <3> QED
      BY <1>5, <2>1, <3>1 DEF HandleChecks, CallsOK
  <2>2. CASE shut # "open"
    BY <1>4, <1>5, <2>2 DEF HandleChecks
  <2> QED
    BY <2>1, <2>2
<1>6. ASSUME NEW p \in Callers, HandlePushes(p) PROVE CallsOK'
  BY <1>4, <1>6 DEF HandlePushes
<1>7. CASE UNCHANGED handleVars
  BY <1>7 DEF handleVars, CallsOK, InFlight
<1>8. Shutdown \/ ContextExpires \/ Loop \/ UNCHANGED vars => UNCHANGED handleVars
  BY DEF Shutdown, ShutdownStarts, ShutdownLocks, ShutdownPasses, ShutdownCloses,
     ContextExpires, runVars, Loop, Top, SelectDone, Tick, Take, AddRejects,
     AddFlushesFirst, AddAppends, AddFlushesAfter, DrainExpires, DrainFlushes,
     DrainEnds, otherVars, vars
<1> QED
  BY <1>2, <1>3, <1>5, <1>6, <1>7, <1>8 DEF Next

\* The entries rise through the batch kept for a resend, the batch, the entry
\* just taken and the channel.
Rising(s) == \A i, j \in 1..Len(s) : i < j => s[i] < s[j]
Before(s, t) == \A i \in 1..Len(s), j \in 1..Len(t) : s[i] < t[j]
Numbered(s) == \A i \in 1..Len(s) : s[i] \in 1..accepted

QueueOK ==
  /\ Numbered(retry) /\ Numbered(batch) /\ Numbered(entry) /\ Numbered(ch)
  /\ Rising(retry) /\ Rising(batch) /\ Rising(entry) /\ Rising(ch)
  /\ Before(retry, batch) /\ Before(retry, entry) /\ Before(retry, ch)
  /\ Before(batch, entry) /\ Before(batch, ch) /\ Before(entry, ch)

\* An empty queue is in order, before and after any other.
LEMMA EmptyInOrder ==
  ASSUME NEW s
  PROVE  Rising(<<>>) /\ Before(<<>>, s) /\ Before(s, <<>>) /\ Numbered(<<>>)
  BY DEF Rising, Before, Numbered

\* An entry that comes after s is appended to it, or to what s comes before.
LEMMA AppendInOrder ==
  ASSUME NEW s \in Seq(Nat), NEW e \in Nat, \A i \in 1..Len(s) : s[i] < e
  PROVE  /\ Rising(s) => Rising(Append(s, e))
         /\ \A t \in Seq(Nat) : Before(t, s) /\ (\A i \in 1..Len(t) : t[i] < e)
                                  => Before(t, Append(s, e))
         /\ \A t \in Seq(Nat) : Before(s, t) /\ (\A i \in 1..Len(t) : e < t[i])
                                  => Before(Append(s, e), t)
<1> DEFINE a == Append(s, e)
<1>1. /\ a \in Seq(Nat) /\ Len(a) = Len(s) + 1 /\ Len(s) \in Nat /\ a[Len(s) + 1] = e
      /\ \A i \in 1..Len(s) : a[i] = s[i] /\ s[i] \in Nat
  OBVIOUS
<1> HIDE DEF a
<1>2. \A i \in 1..Len(a) : i \in 1..Len(s) \/ i = Len(s) + 1
  BY <1>1
<1>3. ASSUME Rising(s), NEW i \in 1..Len(a), NEW j \in 1..Len(a), i < j PROVE a[i] < a[j]
  <2>1. i \in 1..Len(s)
    BY <1>1, <1>3
  <2>2. CASE j \in 1..Len(s)
    BY <1>1, <1>3, <2>1, <2>2 DEF Rising
  <2>3. CASE j = Len(s) + 1
    BY <1>1, <2>1, <2>3
  <2> QED
    BY <1>2, <2>2, <2>3
<1>4. ASSUME NEW t \in Seq(Nat), Before(t, s), \A i \in 1..Len(t) : t[i] < e
      PROVE  Before(t, a)
  BY <1>1, <1>2, <1>4 DEF Before
<1>5. ASSUME NEW t \in Seq(Nat), Before(s, t), \A i \in 1..Len(t) : e < t[i]
      PROVE  Before(a, t)
  BY <1>1, <1>2, <1>5 DEF Before
<1>6. Rising(s) => Rising(a)
  BY <1>3 DEF Rising
<1> QED
  BY <1>4, <1>5, <1>6 DEF a

\* Taking the head of a rising sequence.
LEMMA TakeInOrder ==
  ASSUME NEW s \in Seq(Nat), s # <<>>, Rising(s)
  PROVE  /\ Rising(Tail(s)) /\ Rising(<<Head(s)>>) /\ Before(<<Head(s)>>, Tail(s))
         /\ \A t \in Seq(Nat) : Before(t, s) => Before(t, Tail(s)) /\ Before(t, <<Head(s)>>)
         /\ Numbered(s) => Numbered(Tail(s)) /\ Numbered(<<Head(s)>>)
<1> DEFINE a == Tail(s)
           h == <<Head(s)>>
<1>1. /\ a \in Seq(Nat) /\ Len(s) \in Nat \ {0} /\ Len(a) = Len(s) - 1
      /\ \A i \in 1..Len(a) : a[i] = s[i + 1]
      /\ h \in Seq(Nat) /\ Len(h) = 1 /\ h[1] = s[1]
      /\ \A i \in 1..Len(s) : s[i] \in Nat
  OBVIOUS
<1> HIDE DEF a, h
<1>2. \A i \in 1..Len(a) : i + 1 \in 1..Len(s) /\ 1 < i + 1
  BY <1>1
<1>3. 1 \in 1..Len(s) /\ \A i \in 1..Len(h) : i = 1
  BY <1>1
<1>4. Rising(a) /\ Rising(h) /\ Before(h, a)
  <2>1. ASSUME NEW i \in 1..Len(a), NEW j \in 1..Len(a), i < j PROVE a[i] < a[j]
    <3>1. i + 1 \in 1..Len(s) /\ j + 1 \in 1..Len(s) /\ i + 1 < j + 1
      BY <1>1, <1>2, <2>1
    <3>2. s[i + 1] < s[j + 1]
      BY <3>1 DEF Rising
    <3> QED
      BY <1>1, <3>2
  <2>2. Rising(h)
    BY <1>1, <1>3 DEF Rising
  <2>3. Before(h, a)
    BY <1>1, <1>2, <1>3 DEF Rising, Before
  <2> QED
    BY <2>1, <2>2, <2>3 DEF Rising
<1>5. ASSUME NEW t \in Seq(Nat), Before(t, s) PROVE Before(t, a) /\ Before(t, h)
  <2>1. Before(t, a)
    BY <1>1, <1>2, <1>5 DEF Before
  <2>2. Before(t, h)
    BY <1>1, <1>3, <1>5 DEF Before
  <2> QED
    BY <2>1, <2>2
<1>6. Numbered(s) => Numbered(a) /\ Numbered(h)
  BY <1>1, <1>2, <1>3 DEF Numbered
<1> QED
  BY <1>4, <1>5, <1>6 DEF a, h

\* Every step keeps the numbers rising from the kept batch to the channel's end.
LEMMA QueueStep ==
  ASSUME ShipInv, QueueOK, [Next]_vars
  PROVE  QueueOK'
<1>1. /\ accepted \in Nat
      /\ ch \in Seq(Nat) /\ entry \in Seq(Nat) /\ batch \in Seq(Nat) /\ retry \in Seq(Nat)
  BY DEF ShipInv, Counted
<1>2. CASE Still
  BY <1>2 DEF Still, QueueOK, Numbered
<1>3. CASE Pushed
  <2>1. /\ ch' = Append(ch, accepted + 1) /\ accepted' = accepted + 1 /\ accepted + 1 \in Nat
        /\ UNCHANGED <<entry, batch, retry>>
    BY <1>1, <1>3 DEF Pushed
  <2>2. ASSUME NEW s \in Seq(Nat), Numbered(s)
        PROVE  (\A i \in 1..Len(s) : s[i] < accepted + 1 /\ s[i] \in 1..(accepted + 1))
    BY <1>1, <2>2 DEF Numbered
  <2>3. ASSUME NEW i \in 1..Len(ch') PROVE ch'[i] \in 1..accepted'
    <3>1. Len(ch') = Len(ch) + 1 /\ Len(ch) \in Nat
      BY <1>1, <2>1
    <3>2. CASE i = Len(ch) + 1
      BY <1>1, <2>1, <3>2
    <3>3. CASE i # Len(ch) + 1
      <4>1. i \in 1..Len(ch)
        BY <3>1, <3>3
      <4>2. ch'[i] = ch[i]
        BY <1>1, <2>1, <4>1
      <4> QED
        BY <1>1, <2>1, <2>2, <4>1, <4>2 DEF QueueOK
    <3> QED
      BY <3>2, <3>3
  <2>4. Numbered(ch)' /\ Numbered(entry)' /\ Numbered(batch)' /\ Numbered(retry)'
    <3>1. Numbered(ch)'
      BY <2>3 DEF Numbered
    <3>2. Numbered(entry)' /\ Numbered(batch)' /\ Numbered(retry)'
      BY <1>1, <2>1, <2>2 DEF Numbered, QueueOK
    <3> QED
      BY <3>1, <3>2
  <2>5. Rising(ch') /\ Before(entry, ch') /\ Before(batch, ch') /\ Before(retry, ch')
    BY <1>1, <2>1, <2>2, AppendInOrder DEF QueueOK
  <2> QED
    BY <2>1, <2>4, <2>5 DEF QueueOK
<1>4. CASE Taken
  <2>1. /\ ch # <<>> /\ entry' = <<Head(ch)>> /\ ch' = Tail(ch)
        /\ UNCHANGED <<accepted, batch, retry>>
    BY <1>4 DEF Taken
  <2>2. /\ Rising(ch') /\ Rising(entry') /\ Before(entry', ch')
        /\ Before(batch, ch') /\ Before(batch, entry')
        /\ Before(retry, ch') /\ Before(retry, entry')
        /\ Numbered(ch') /\ Numbered(entry')
    BY <1>1, <2>1, TakeInOrder DEF QueueOK
  <2> QED
    BY <2>1, <2>2 DEF QueueOK, Numbered
<1>5. CASE Rejected
  <2>1. entry' = <<>> /\ UNCHANGED <<accepted, ch, batch, retry>>
    BY <1>5 DEF Rejected
  <2>2. /\ Rising(entry') /\ Numbered(entry') /\ Before(entry', ch)
        /\ Before(batch, entry') /\ Before(retry, entry')
    BY <2>1, EmptyInOrder
  <2> QED
    BY <2>1, <2>2 DEF QueueOK, Numbered
<1>6. CASE AddAppends
  <2>1. /\ batch' = Append(batch, entry[1]) /\ entry' = <<>>
        /\ UNCHANGED <<accepted, ch, retry>>
    BY <1>6 DEF AddAppends, otherVars, handleVars
  <2>2. Len(entry) = 1 /\ entry[1] \in Nat /\ entry[1] \in 1..accepted
    <3>1. Len(entry) = 1
      BY <1>6 DEF AddAppends, ShipInv, Held
    <3> QED
      BY <3>1 DEF QueueOK, Numbered
  <2>3. /\ \A i \in 1..Len(batch) : batch[i] < entry[1]
        /\ \A i \in 1..Len(retry) : retry[i] < entry[1]
        /\ \A i \in 1..Len(ch) : entry[1] < ch[i]
    BY <2>2 DEF QueueOK, Before
  <2>4. Rising(batch') /\ Before(retry, batch') /\ Before(batch', ch)
    BY <1>1, <2>1, <2>2, <2>3, AppendInOrder DEF QueueOK
  <2>5. Numbered(batch')
    <3> SUFFICES ASSUME NEW i \in 1..Len(batch') PROVE batch'[i] \in 1..accepted
      BY DEF Numbered
    <3>1. Len(batch') = Len(batch) + 1 /\ Len(batch) \in Nat
      BY <1>1, <2>1, <2>2
    <3>2. CASE i = Len(batch) + 1
      BY <1>1, <2>1, <2>2, <3>2
    <3>3. CASE i # Len(batch) + 1
      <4>1. i \in 1..Len(batch)
        BY <3>1, <3>3
      <4>2. batch'[i] = batch[i]
        BY <1>1, <2>1, <2>2, <4>1
      <4> QED
        BY <4>1, <4>2 DEF QueueOK, Numbered
    <3> QED
      BY <3>2, <3>3
  <2>6. /\ Rising(entry') /\ Numbered(entry') /\ Before(entry', ch)
        /\ Before(batch', entry') /\ Before(retry, entry')
    BY <2>1, EmptyInOrder
  <2> QED
    BY <2>1, <2>4, <2>5, <2>6 DEF QueueOK, Numbered
<1>7. CASE Flushed
  <2>1. batch' = <<>> /\ (retry' = batch \/ retry' = <<>>) /\ UNCHANGED <<accepted, ch, entry>>
    BY <1>7 DEF Flushed, flush
  <2>2. /\ Rising(batch') /\ Numbered(batch') /\ Before(batch', entry) /\ Before(batch', ch)
        /\ Before(retry', batch')
    BY <2>1, EmptyInOrder
  <2>3. /\ Rising(retry') /\ Numbered(retry') /\ Before(retry', entry) /\ Before(retry', ch)
    BY <2>1, EmptyInOrder DEF QueueOK
  <2> QED
    BY <2>1, <2>2, <2>3 DEF QueueOK, Numbered
<1> QED
  BY <1>2, <1>3, <1>4, <1>5, <1>6, <1>7, StepKinds

\* DeliveredInOrder of any sequence of requests.
InOrder(R) ==
  \A j, k \in 1..Len(R) :
    j < k => \/ R[j] = R[k] /\ k = j + 1
             \/ R[j][Len(R[j])] < R[k][1]

Requests(R) ==
  /\ R \in Seq(Seq(Nat))
  /\ \A k \in 1..Len(R) : R[k] # <<>>
  /\ InOrder(R)

\* Every request ends before s begins; or the last one is s, sent before.
Clear(R, s) == \A k \in 1..Len(R) : \A i \in 1..Len(s) : R[k][Len(R[k])] < s[i]
Resend(R, s) ==
  \A k \in 1..Len(R) : \/ \A i \in 1..Len(s) : R[k][Len(R[k])] < s[i]
                       \/ k = Len(R) /\ R[k] = s
Old(R) == \A k \in 1..Len(R) : R[k][Len(R[k])] <= accepted

\* What has been sent comes before what is held, apart from a batch that is kept
\* because its request was not answered: it is the last one sent.
ServedOK ==
  /\ Requests(requests) /\ Old(requests)
  /\ Clear(requests, batch) /\ Clear(requests, entry) /\ Clear(requests, ch)
  /\ Resend(requests, retry)

\* A request appended to the log of requests leaves the earlier ones as they were.
LEMMA AppendRequest ==
  ASSUME NEW R \in Seq(Seq(Nat)), NEW s \in Seq(Nat)
  PROVE  /\ Append(R, s) \in Seq(Seq(Nat)) /\ Len(Append(R, s)) = Len(R) + 1 /\ Len(R) \in Nat
         /\ Append(R, s)[Len(R) + 1] = s
         /\ \A k \in 1..Len(R) : Append(R, s)[k] = R[k]
         /\ \A k \in 1..Len(Append(R, s)) : k \in 1..Len(R) \/ k = Len(R) + 1
  OBVIOUS

\* Sending s keeps the order if everything sent is older, or is s itself.
LEMMA Sends ==
  ASSUME NEW R, NEW s \in Seq(Nat), s # <<>>, Requests(R), Resend(R, s)
  PROVE  Requests(Append(R, s))
<1> DEFINE a == Append(R, s)
<1>1. /\ a \in Seq(Seq(Nat)) /\ Len(a) = Len(R) + 1 /\ Len(R) \in Nat /\ a[Len(R) + 1] = s
      /\ \A k \in 1..Len(R) : a[k] = R[k]
      /\ \A k \in 1..Len(a) : k \in 1..Len(R) \/ k = Len(R) + 1
  BY AppendRequest DEF Requests
<1> HIDE DEF a
<1>2. \A k \in 1..Len(a) : a[k] # <<>>
  BY <1>1 DEF Requests
<1>3. ASSUME NEW j \in 1..Len(a), NEW k \in 1..Len(a), j < k
      PROVE  (a[j] = a[k] /\ k = j + 1) \/ a[j][Len(a[j])] < a[k][1]
  <2>1. j \in 1..Len(R) /\ a[j] = R[j]
    BY <1>1, <1>3
  <2>2. CASE k \in 1..Len(R)
    <3>1. a[k] = R[k]
      BY <1>1, <2>2
    <3> QED
      BY <1>3, <2>1, <2>2, <3>1 DEF Requests, InOrder
  <2>3. CASE k = Len(R) + 1
    <3>1. a[k] = s /\ 1 \in 1..Len(s)
      BY <1>1, <2>3
    <3> QED
      BY <1>1, <2>1, <2>3, <3>1 DEF Resend
  <2> QED
    BY <1>1, <2>2, <2>3
<1> QED
  BY <1>1, <1>2, <1>3 DEF a, Requests, InOrder

\* Sending s keeps clear of what s comes before, and s may be sent again.
LEMMA SendsClear ==
  ASSUME NEW R, NEW s \in Seq(Nat), s # <<>>, Requests(R)
  PROVE  /\ \A t \in Seq(Nat) : Clear(R, t) /\ Before(s, t) => Clear(Append(R, s), t)
         /\ Clear(R, s) => Resend(Append(R, s), s)
         /\ Old(R) /\ Numbered(s) => Old(Append(R, s))
<1> DEFINE a == Append(R, s)
<1>1. /\ a \in Seq(Seq(Nat)) /\ Len(a) = Len(R) + 1 /\ Len(R) \in Nat /\ a[Len(R) + 1] = s
      /\ \A k \in 1..Len(R) : a[k] = R[k]
      /\ \A k \in 1..Len(a) : k \in 1..Len(R) \/ k = Len(R) + 1
  BY AppendRequest DEF Requests
<1> HIDE DEF a
<1>2. Len(s) \in 1..Len(s)
  OBVIOUS
<1>3. ASSUME NEW t \in Seq(Nat), Clear(R, t), Before(s, t) PROVE Clear(a, t)
  BY <1>1, <1>2, <1>3 DEF Clear, Before
<1>4. ASSUME Clear(R, s) PROVE Resend(a, s)
  BY <1>1, <1>4 DEF Clear, Resend
<1>5. ASSUME Old(R), Numbered(s) PROVE Old(a)
  <2>1. s[Len(s)] <= accepted
    BY <1>2, <1>5 DEF Numbered
  <2> QED
    BY <1>1, <1>5, <2>1 DEF Old
<1> QED
  BY <1>3, <1>4, <1>5 DEF a

\* A flush sends the kept batch, or not, and then the new one, or not.
LEMMA FlushSends ==
  ASSUME NEW r, NEW b, flush(r, b), requests \in Seq(Seq(Nat)),
         retry \in Seq(Nat), batch \in Seq(Nat)
  PROVE  \E R : /\ R = requests \/ (retry # <<>> /\ R = Append(requests, retry))
                /\ requests' = R \/ (batch # <<>> /\ requests' = Append(R, batch))
<1>1. ASSUME NEW Q \in Seq(Seq(Nat)), NEW s \in Seq(Nat), NEW o
      PROVE  /\ Q \o Reached(o, s) = Q \/ (s # <<>> /\ Q \o Reached(o, s) = Append(Q, s))
             /\ Q \o Reached(o, s) \in Seq(Seq(Nat))
  <2>1. Q \o <<>> = Q /\ Q \o <<s>> = Append(Q, s) /\ Append(Q, s) \in Seq(Seq(Nat))
    OBVIOUS
  <2> QED
    BY <2>1 DEF Reached
<1> DEFINE R == requests \o Reached(r, retry)
<1>2. requests' = R \o <<>> \/ requests' = R \o Reached(b, batch)
  BY DEF flush, Observe
<1>3. /\ R = requests \/ (retry # <<>> /\ R = Append(requests, retry))
      /\ R \in Seq(Seq(Nat))
  BY <1>1
<1> HIDE DEF R
<1>4. R \o <<>> = R
  BY <1>3
<1>5. requests' = R \/ (batch # <<>> /\ requests' = Append(R, batch))
  BY <1>1, <1>2, <1>3, <1>4
<1> QED
  BY <1>3, <1>5

\* Every step keeps the requests in order and ahead of what still waits.
LEMMA ServedStep ==
  ASSUME ShipInv, QueueOK, ServedOK, [Next]_vars
  PROVE  ServedOK'
<1>1. /\ accepted \in Nat
      /\ ch \in Seq(Nat) /\ entry \in Seq(Nat) /\ batch \in Seq(Nat) /\ retry \in Seq(Nat)
      /\ requests \in Seq(Seq(Nat))
  BY DEF ShipInv, Counted, ServedOK, Requests
<1>2. CASE Still
  BY <1>2 DEF Still, ServedOK, Old
<1>3. CASE Pushed
  <2>1. /\ ch' = Append(ch, accepted + 1) /\ accepted' = accepted + 1
        /\ UNCHANGED <<entry, batch, retry, requests>>
    BY <1>3 DEF Pushed
  <2>2. \A k \in 1..Len(requests) : /\ requests[k][Len(requests[k])] \in Nat
                                    /\ requests[k][Len(requests[k])] <= accepted
    <3> SUFFICES ASSUME NEW k \in 1..Len(requests) PROVE requests[k][Len(requests[k])] \in Nat
      BY DEF ServedOK, Old
    <3>1. requests[k] \in Seq(Nat) /\ requests[k] # <<>>
      BY <1>1 DEF ServedOK, Requests
    <3> QED
      BY <3>1
  <2>3. Old(requests)'
    <3> SUFFICES ASSUME NEW k \in 1..Len(requests)
                 PROVE  requests[k][Len(requests[k])] <= accepted + 1
      BY <2>1 DEF Old
    <3> DEFINE x == requests[k][Len(requests[k])]
    <3>1. x \in Nat /\ x <= accepted
      BY <2>2
    <3> HIDE DEF x
    <3>2. x <= accepted + 1
      BY <1>1, <3>1
    <3> QED
      BY <3>2 DEF x
  <2>4. ASSUME NEW k \in 1..Len(requests), NEW i \in 1..Len(ch')
        PROVE  requests[k][Len(requests[k])] < ch'[i]
    <3>1. Len(ch') = Len(ch) + 1 /\ Len(ch) \in Nat
      BY <1>1, <2>1
    <3>2. CASE i = Len(ch) + 1
      <4>1. ch'[i] = accepted + 1
        BY <1>1, <2>1, <3>2
      <4> QED
        BY <1>1, <2>2, <4>1
    <3>3. CASE i # Len(ch) + 1
      <4>1. i \in 1..Len(ch)
        BY <3>1, <3>3
      <4>2. ch'[i] = ch[i]
        BY <1>1, <2>1, <4>1
      <4> QED
        BY <4>1, <4>2 DEF ServedOK, Clear
    <3> QED
      BY <3>2, <3>3
  <2>5. Clear(requests, ch)'
    BY <2>1, <2>4 DEF Clear
  <2> QED
    BY <2>1, <2>3, <2>5 DEF ServedOK
<1>4. CASE Taken
  <2>1. /\ ch # <<>> /\ entry' = <<Head(ch)>> /\ ch' = Tail(ch)
        /\ UNCHANGED <<accepted, batch, retry, requests>>
    BY <1>4 DEF Taken
  <2>2. /\ Len(ch') = Len(ch) - 1 /\ Len(ch) \in Nat \ {0}
        /\ \A i \in 1..Len(ch') : ch'[i] = ch[i + 1] /\ i + 1 \in 1..Len(ch)
        /\ Len(entry') = 1 /\ entry'[1] = ch[1] /\ 1 \in 1..Len(ch)
    BY <1>1, <2>1
  <2>3. Clear(requests, ch)' /\ Clear(requests, entry)'
    BY <2>1, <2>2 DEF ServedOK, Clear
  <2> QED
    BY <2>1, <2>3 DEF ServedOK, Old
<1>5. CASE Rejected
  BY <1>5 DEF Rejected, ServedOK, Old, Clear
<1>6. CASE AddAppends
  <2>1. /\ batch' = Append(batch, entry[1]) /\ entry' = <<>>
        /\ UNCHANGED <<accepted, ch, retry, requests>>
    BY <1>6 DEF AddAppends, otherVars, handleVars, netVars
  <2>2. Len(entry) = 1 /\ 1 \in 1..Len(entry) /\ entry[1] \in Nat
    <3>1. Len(entry) = 1
      BY <1>6 DEF AddAppends, ShipInv, Held
    <3>2. 1 \in 1..Len(entry)
      BY <3>1
    <3>3. \A i \in 1..Len(entry) : entry[i] \in Nat
      BY <1>1
    <3> QED
      BY <3>1, <3>2, <3>3
  <2>3. /\ Len(batch') = Len(batch) + 1 /\ Len(batch) \in Nat
        /\ batch'[Len(batch) + 1] = entry[1]
        /\ \A i \in 1..Len(batch) : batch'[i] = batch[i]
        /\ \A i \in 1..Len(batch') : i \in 1..Len(batch) \/ i = Len(batch) + 1
    BY <1>1, <2>1, <2>2
  <2>4. Clear(requests, batch)' /\ Clear(requests, entry)'
    BY <2>1, <2>2, <2>3 DEF ServedOK, Clear
  <2> QED
    BY <2>1, <2>4 DEF ServedOK, Old
<1>7. CASE Flushed
  <2>1. PICK r \in Outcomes, b \in Outcomes : flush(r, b)
    BY <1>7 DEF Flushed
  <2>2. batch' = <<>> /\ (retry' = batch \/ retry' = <<>>) /\ UNCHANGED <<accepted, ch, entry>>
    BY <1>7, <2>1 DEF Flushed, flush
  <2>3. PICK R : /\ R = requests \/ (retry # <<>> /\ R = Append(requests, retry))
                 /\ requests' = R \/ (batch # <<>> /\ requests' = Append(R, batch))
    BY <1>1, <2>1, FlushSends
  <2>4. Requests(R) /\ Old(R) /\ Clear(R, batch) /\ Clear(R, entry) /\ Clear(R, ch)
    <3>1. CASE R = requests
      BY <3>1 DEF ServedOK
    <3>2. CASE retry # <<>> /\ R = Append(requests, retry)
      BY <1>1, <3>2, Sends, SendsClear DEF ServedOK, QueueOK
    <3> QED
      BY <2>3, <3>1, <3>2
  <2>5. Resend(R, batch)
    BY <2>4 DEF Clear, Resend
  <2>6. /\ Requests(requests') /\ Old(requests')
        /\ Clear(requests', entry) /\ Clear(requests', ch) /\ Resend(requests', batch)
    <3>1. CASE requests' = R
      BY <2>4, <2>5, <3>1
    <3>2. CASE batch # <<>> /\ requests' = Append(R, batch)
      BY <1>1, <2>4, <2>5, <3>2, Sends, SendsClear DEF QueueOK
    <3> QED
      BY <2>3, <3>1, <3>2
  <2>7. Resend(requests', <<>>) /\ Clear(requests', <<>>)
    BY DEF Resend, Clear
  <2> QED
    BY <2>2, <2>6, <2>7 DEF ServedOK, Old
<1> QED
  BY <1>2, <1>3, <1>4, <1>5, <1>6, <1>7, StepKinds

\* A batch and the batch kept for a resend fit in a request; batchBytes is the
\* size of the request the batch makes.
Fits(es) == Len(es) <= BatchSize /\ (es # <<>> => Bytes(es) <= maxRequestBytes)

SizesOK ==
  /\ batchBytes = Bytes(batch)
  /\ Fits(batch) /\ Fits(retry)
  /\ pc # "full" => Len(batch) < BatchSize
  /\ RequestsWithinLimits

\* A sequence is over every set that holds its elements.
LEMMA ElementsType ==
  ASSUME NEW S, NEW T, NEW s \in Seq(S), \A i \in 1..Len(s) : s[i] \in T
  PROVE  s \in Seq(T)
  OBVIOUS

\* Every step keeps the batches within the limits on entries and bytes.
LEMMA SizesStep ==
  ASSUME ShipInv, CallsOK, QueueOK, requests \in Seq(Seq(Nat)), SizesOK, [Next]_vars
  PROVE  SizesOK'
<1>1. /\ accepted \in Nat /\ batch \in Seq(Nat) /\ retry \in Seq(Nat) /\ entry \in Seq(Nat)
      /\ BatchSize \in Nat \ {0} /\ maxRequestBytes \in Nat /\ emptyRequestBytes \in Nat
  BY ShipperAssumption DEF ShipInv, Counted
<1>2. CASE Still \/ Taken \/ Rejected \/ Pushed
  <2>1. UNCHANGED <<batch, batchBytes, retry, requests>> /\ (pc = "full" => pc' = "full")
    BY <1>2 DEF Still, Taken, Rejected, Pushed
  <2>2. RequestsWithinLimits'
    BY <2>1 DEF SizesOK, RequestsWithinLimits
  <2>3. Bytes(batch)' = Bytes(batch) /\ Fits(batch)' /\ Fits(retry)'
    BY <2>1 DEF SizesOK, Fits
  <2>4. pc' # "full" => Len(batch') < BatchSize
    BY <2>1 DEF SizesOK
  <2> QED
    BY <2>1, <2>2, <2>3, <2>4 DEF SizesOK
<1>3. CASE AddAppends
  <2>1. /\ batch' = Append(batch, entry[1])
        /\ batchBytes' = batchBytes + Size[entry[1]] + (IF batch = <<>> THEN 0 ELSE 1)
        /\ emptyRequestBytes + Size[entry[1]] <= maxRequestBytes /\ ~TooFull
        /\ pc = "add" /\ pc' = IF Len(batch) + 1 >= BatchSize THEN "full" ELSE "top"
        /\ UNCHANGED <<retry, requests>>
    BY <1>3 DEF AddAppends, netVars
  <2>2. batch \in Seq(Entries) /\ entry[1] \in Entries /\ Size[entry[1]] \in Nat
    <3>1. accepted <= MaxCalls /\ MaxCalls \in Nat
      <4>1. /\ calls \in Nat /\ calls <= MaxCalls /\ accepted <= returned
            /\ calls = returned + Cardinality(InFlight) /\ Cardinality(InFlight) \in Nat
        BY FS_CardinalityType DEF CallsOK
      <4>2. returned \in Nat /\ MaxCalls \in Nat
        BY ShipperAssumption DEF ShipInv, Counted
      <4> QED
        BY <1>1, <4>1, <4>2
    <3>2. \A i \in 1..Len(batch) : batch[i] \in Entries
      BY <1>1, <3>1 DEF QueueOK, Numbered, Entries
    <3>3. batch \in Seq(Entries)
      BY <1>1, <3>2, ElementsType
    <3>4. Len(entry) = 1
      BY <2>1 DEF ShipInv, Held
    <3>5. entry[1] \in 1..accepted
      BY <3>4 DEF QueueOK, Numbered
    <3>6. entry[1] \in Entries
      BY <1>1, <3>1, <3>5 DEF Entries
    <3> QED
      BY <3>3, <3>6, ShipperAssumption
  <2>3. /\ Bytes(batch) \in Nat
        /\ Bytes(batch') = Bytes(batch) + Size[entry[1]] + (IF batch = <<>> THEN 0 ELSE 1)
    BY <2>1, <2>2, BytesAppend
  <2>4. batchBytes' = Bytes(batch')
    BY <2>1, <2>3 DEF SizesOK
  <2>5. Bytes(batch') <= maxRequestBytes
    <3>1. CASE batch = <<>>
      <4>1. Bytes(batch) = emptyRequestBytes
        BY <3>1, BytesEmpty
      <4> QED
        BY <1>1, <2>1, <2>2, <2>3, <3>1, <4>1
    <3>2. CASE batch # <<>>
      <4>1. ~(Bytes(batch) + 1 + Size[entry[1]] > maxRequestBytes)
        BY <2>1, <3>2 DEF TooFull, SizesOK
      <4> QED
        BY <1>1, <2>2, <2>3, <3>2, <4>1
    <3> QED
      BY <3>1, <3>2
  <2>6. Len(batch) < BatchSize /\ Len(batch') = Len(batch) + 1 /\ Len(batch) \in Nat
    BY <1>1, <2>1, <2>2 DEF SizesOK
  <2>7. Len(batch') <= BatchSize /\ (pc' # "full" => Len(batch') < BatchSize)
    BY <1>1, <2>1, <2>6
  <2> QED
    BY <2>1, <2>4, <2>5, <2>7 DEF SizesOK, Fits, RequestsWithinLimits
<1>4. CASE Flushed
  <2>1. PICK r \in Outcomes, b \in Outcomes : flush(r, b)
    BY <1>4 DEF Flushed
  <2>2. /\ batch' = <<>> /\ batchBytes' = emptyRequestBytes /\ pc' # "full"
        /\ retry' = batch \/ retry' = <<>>
    BY <1>4, <2>1 DEF Flushed, flush
  <2>3. Len(<<>>) = 0 /\ Fits(<<>>)
    BY <1>1 DEF Fits
  <2>4. Fits(retry') /\ Fits(batch') /\ Len(batch') < BatchSize /\ batchBytes' = Bytes(batch')
    BY <1>1, <2>2, <2>3, BytesEmpty DEF SizesOK
  <2>5. PICK R : /\ R = requests \/ (retry # <<>> /\ R = Append(requests, retry))
                 /\ requests' = R \/ (batch # <<>> /\ requests' = Append(R, batch))
    BY <1>1, <2>1, FlushSends
  <2> DEFINE Limited(Q) == \A k \in 1..Len(Q) : Len(Q[k]) <= BatchSize
                                                  /\ Bytes(Q[k]) <= maxRequestBytes
  <2>6. ASSUME NEW Q \in Seq(Seq(Nat)), NEW s \in Seq(Nat), s # <<>>, Fits(s), Limited(Q)
        PROVE  Limited(Append(Q, s)) /\ Append(Q, s) \in Seq(Seq(Nat))
    <3> DEFINE a == Append(Q, s)
    <3>1. /\ a \in Seq(Seq(Nat)) /\ a[Len(Q) + 1] = s
          /\ \A k \in 1..Len(Q) : a[k] = Q[k]
          /\ \A k \in 1..Len(a) : k \in 1..Len(Q) \/ k = Len(Q) + 1
      BY AppendRequest
    <3>2. Len(s) <= BatchSize /\ Bytes(s) <= maxRequestBytes
      BY <2>6 DEF Fits
    <3> HIDE DEF a
    <3>3. ASSUME NEW k \in 1..Len(a)
          PROVE  Len(a[k]) <= BatchSize /\ Bytes(a[k]) <= maxRequestBytes
      <4>1. CASE k \in 1..Len(Q)
        BY <2>6, <3>1, <4>1
      <4>2. CASE k = Len(Q) + 1
        BY <3>1, <3>2, <4>2
      <4> QED
        BY <3>1, <4>1, <4>2
    <3> QED
      BY <3>1, <3>3 DEF a
  <2>7. Limited(requests) /\ Fits(retry) /\ Fits(batch)
    BY DEF SizesOK, RequestsWithinLimits
  <2> HIDE DEF Limited
  <2>8. Limited(R) /\ R \in Seq(Seq(Nat))
    BY <1>1, <2>5, <2>6, <2>7
  <2>9. Limited(requests')
    BY <1>1, <2>5, <2>6, <2>7, <2>8
  <2>10. RequestsWithinLimits'
    BY <2>9 DEF Limited, RequestsWithinLimits
  <2> QED
    BY <2>4, <2>10 DEF SizesOK, Fits
<1> QED
  BY <1>2, <1>3, <1>4, StepKinds

\* What the server gets are batches within the limits, in the order in which
\* their entries were accepted, and at most one repetition of a request it took
\* and did not acknowledge: for any callers, entry sizes, limits and answers, and
\* however Shutdown races with the loop.
THEOREM RequestsInOrder == Spec => []RequestsCorrect
<1> DEFINE Inv == ShipInv /\ CallsOK /\ QueueOK /\ ServedOK /\ SizesOK
<1>1. Init => CallsOK /\ QueueOK /\ ServedOK /\ SizesOK
  <2> SUFFICES ASSUME Init PROVE CallsOK /\ QueueOK /\ ServedOK /\ SizesOK
    OBVIOUS
  <2>1. CallsOK
    <3>1. InFlight = {}
      BY DEF Init, InFlight
    <3>2. IsFiniteSet({}) /\ Cardinality({}) = 0
      BY FS_EmptySet
    <3> QED
      BY <3>1, <3>2, ShipperAssumption DEF Init, CallsOK
  <2>2. QueueOK
    BY EmptyInOrder DEF Init, QueueOK
  <2>3. ServedOK
    BY DEF Init, ServedOK, Requests, InOrder, Clear, Resend, Old
  <2>4. SizesOK
    BY BytesEmpty, ShipperAssumption DEF Init, SizesOK, Fits, RequestsWithinLimits
  <2> QED
    BY <2>1, <2>2, <2>3, <2>4
<1>2. Inv /\ [Next]_vars => (CallsOK /\ QueueOK /\ ServedOK /\ SizesOK)'
  <2> SUFFICES ASSUME Inv, [Next]_vars PROVE (CallsOK /\ QueueOK /\ ServedOK /\ SizesOK)'
    OBVIOUS
  <2>1. requests \in Seq(Seq(Nat))
    BY DEF ServedOK, Requests
  <2> QED
    BY <2>1, CallsStep, QueueStep, ServedStep, SizesStep
<1>3. Inv => RequestsCorrect
  BY DEF ServedOK, Requests, InOrder, SizesOK, RequestsCorrect, DeliveredInOrder
<1> QED
  BY ShipInvariant, <1>1, <1>2, <1>3, PTL DEF Spec
=============================================================================
