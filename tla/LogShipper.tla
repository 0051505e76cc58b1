------------------------------ MODULE LogShipper ------------------------------
(***************************************************************************)
(* The Go log shipper (pkg/logshipper/handler.go): Handle pushes entries   *)
(* to a bounded channel, one goroutine collects them into batches and      *)
(* posts these, keeping one failed batch for a resend, and Shutdown drains *)
(* what is left under its context.                                         *)
(*                                                                         *)
(* Accepted entries are numbered in the order of the channel.  A flush is  *)
(* one step: while it sends, the rest of the program only adds to the      *)
(* channel, which it does not read.                                        *)
(***************************************************************************)
EXTENDS Integers, Sequences, FiniteSets

CONSTANTS
  Callers,                  \* goroutines that log
  MaxCalls,                 \* bound: calls of Handle
  Size,                     \* encoded size of each entry
  BufferSize, BatchSize,
  maxRequestBytes,
  emptyRequestBytes         \* size of a request without entries

Entries == 1..MaxCalls

ASSUME ShipperAssumption ==
  /\ MaxCalls \in Nat
  /\ Size \in [Entries -> Nat]
  /\ BufferSize \in Nat /\ BatchSize \in Nat \ {0}
  /\ maxRequestBytes \in Nat /\ emptyRequestBytes \in Nat

VARIABLES
  calls,                    \* calls of Handle begun
  hpc,                      \* of each caller: idle, entered, pushing
  ch,
  dropped, sendFailed,
  shut,                     \* Shutdown: open, closing, waiting, passed, done
  expired,                  \* the Shutdown context
  pc,                       \* of loop
  draining,
  entry,                    \* the entry add has taken, if any
  batch, batchBytes,
  retry,
  \* Observation only.
  accepted,                 \* entries pushed to the channel
  returned,                 \* calls of Handle that have returned
  acked,                    \* entries of requests answered with 2xx
  requests                  \* the requests that reached the server

handleVars == <<calls, hpc, accepted, returned>>
shutVars   == <<shut, expired>>
batchVars  == <<batch, batchBytes, retry>>
netVars    == <<acked, requests>>
vars == <<handleVars, ch, dropped, sendFailed, shutVars, pc, draining, entry,
          batchVars, netVars>>

Init ==
  /\ calls = 0 /\ accepted = 0 /\ returned = 0
  /\ hpc = [p \in Callers |-> "idle"]
  /\ ch = <<>>
  /\ dropped = 0 /\ sendFailed = 0
  /\ shut = "open"
  /\ expired = FALSE
  /\ pc = "top"
  /\ draining = FALSE
  /\ entry = <<>>
  /\ batch = <<>> /\ batchBytes = emptyRequestBytes
  /\ retry = <<>>
  /\ acked = 0
  /\ requests = <<>>

-----------------------------------------------------------------------------
(* Handle *)

loopVars == <<shutVars, pc, draining, entry, batchVars, netVars, sendFailed>>

\* TryRLock fails while Shutdown waits for the lock: the entry is dropped.
HandleRefused ==
  /\ calls < MaxCalls
  /\ shut = "waiting"
  /\ calls' = calls + 1
  /\ returned' = returned + 1
  /\ dropped' = dropped + 1
  /\ UNCHANGED <<hpc, accepted, ch, loopVars>>

HandleEnters(p) ==
  /\ calls < MaxCalls
  /\ hpc[p] = "idle"
  /\ shut # "waiting"
  /\ calls' = calls + 1
  /\ hpc' = [hpc EXCEPT ![p] = "entered"]
  /\ UNCHANGED <<accepted, returned, ch, dropped, loopVars>>

\* closing.Load(); if it is not set the entry is built, which may take long.
HandleChecks(p) ==
  /\ hpc[p] = "entered"
  /\ IF shut = "open"
     THEN /\ hpc' = [hpc EXCEPT ![p] = "pushing"]
          /\ UNCHANGED <<returned, dropped>>
     ELSE /\ hpc' = [hpc EXCEPT ![p] = "idle"]
          /\ returned' = returned + 1
          /\ dropped' = dropped + 1
  /\ UNCHANGED <<calls, accepted, ch, loopVars>>

HandlePushes(p) ==
  /\ hpc[p] = "pushing"
  /\ hpc' = [hpc EXCEPT ![p] = "idle"]
  /\ returned' = returned + 1
  /\ IF Len(ch) < BufferSize
     THEN /\ ch' = Append(ch, accepted + 1)
          /\ accepted' = accepted + 1
          /\ UNCHANGED dropped
     ELSE /\ dropped' = dropped + 1
          /\ UNCHANGED <<ch, accepted>>
  /\ UNCHANGED <<calls, loopVars>>

-----------------------------------------------------------------------------
(* Shutdown; only its first call has an effect *)

runVars == <<handleVars, ch, dropped, sendFailed, pc, draining, entry, batchVars,
             netVars>>

ShutdownStarts ==
  /\ shut = "open"
  /\ shut' = "closing"
  /\ UNCHANGED <<expired, runVars>>

ShutdownLocks ==
  /\ shut = "closing"
  /\ shut' = "waiting"
  /\ UNCHANGED <<expired, runVars>>

\* Mutant: no barrier.
ShutdownPassesAtOnce ==
  /\ shut = "waiting"
  /\ shut' = "passed"
  /\ UNCHANGED <<expired, runVars>>

\* The lock is granted when no Handle call holds its read side.
ShutdownPasses ==
  /\ shut = "waiting"
  /\ \A p \in Callers : hpc[p] = "idle"
  /\ shut' = "passed"
  /\ UNCHANGED <<expired, runVars>>

\* close(done)
ShutdownCloses ==
  /\ shut = "passed"
  /\ shut' = "done"
  /\ UNCHANGED <<expired, runVars>>

ContextExpires ==
  /\ shut # "open" /\ ~expired
  /\ expired' = TRUE
  /\ UNCHANGED <<shut, runVars>>

-----------------------------------------------------------------------------
(* loop *)

otherVars == <<handleVars, dropped, shutVars>>

\* A send is answered with 2xx, fails before or after the server took it (and
\* is worth a retry), or is rejected for good.
Outcomes == IF draining /\ expired THEN {"fails", "unanswered"}
            ELSE {"ok", "fails", "unanswered", "rejected"}
retryable(o) == o \in {"fails", "unanswered"}
Reached(o, es) == IF o \in {"ok", "unanswered"} /\ es # <<>> THEN <<es>> ELSE <<>>

\* What es counts for if the condition holds.
Count(cond, es) == IF cond THEN Len(es) ELSE 0

Observe(r, b, deferred) ==
  /\ acked' = acked + Count(r = "ok", retry) + Count(b = "ok" /\ ~deferred, batch)
  /\ requests' = requests \o Reached(r, retry)
                          \o (IF deferred THEN <<>> ELSE Reached(b, batch))

\* The kept batch is sent first, for the last time.  If the endpoint is failing
\* the new batch is kept without being sent; else it is sent, and kept if that
\* is worth a retry.
flush(r, b) ==
  LET deferred == retry # <<>> /\ retryable(r) /\ ~draining
      keep     == deferred \/ retryable(b)
  IN  /\ retry' = IF keep THEN batch ELSE <<>>
      /\ sendFailed' = sendFailed + Count(r # "ok", retry)
                     + Count(b = "rejected" /\ ~deferred, batch)
      /\ batch' = <<>>
      /\ batchBytes' = emptyRequestBytes
      /\ Observe(r, b, deferred)

\* Mutant: done is not looked at.
TopIgnoresDone ==
  /\ pc = "top" /\ ~draining
  /\ pc' = "select"
  /\ UNCHANGED <<draining, otherVars, ch, sendFailed, entry, batchVars, netVars>>

\* The check of done at the top of the loop.
Top ==
  /\ pc = "top" /\ ~draining
  /\ IF shut = "done" THEN draining' = TRUE /\ UNCHANGED pc
                      ELSE pc' = "select" /\ UNCHANGED draining
  /\ UNCHANGED <<otherVars, ch, sendFailed, entry, batchVars, netVars>>

SelectDone ==
  /\ pc = "select" /\ shut = "done"
  /\ pc' = "top"
  /\ UNCHANGED <<otherVars, draining, ch, sendFailed, entry, batchVars, netVars>>

Tick ==
  /\ pc = "select"
  /\ \E r, b \in Outcomes : flush(r, b)
  /\ pc' = "top"
  /\ UNCHANGED <<otherVars, draining, ch, entry>>

\* An entry is taken by the select or by the drain.
Take ==
  /\ pc = "select" \/ (pc = "top" /\ draining /\ ~expired)
  /\ ch # <<>>
  /\ entry' = <<Head(ch)>>
  /\ ch' = Tail(ch)
  /\ pc' = "add"
  /\ UNCHANGED <<otherVars, draining, sendFailed, batchVars, netVars>>

\* Too large for any request, or not encodable: counted as failed.
AddRejects ==
  /\ pc = "add"
  /\ emptyRequestBytes + Size[entry[1]] > maxRequestBytes
  /\ sendFailed' = sendFailed + 1
  /\ entry' = <<>>
  /\ pc' = "top"
  /\ UNCHANGED <<otherVars, draining, ch, batchVars, netVars>>

\* Mutant: the comma is not counted.
TooFullNoComma == batch # <<>> /\ batchBytes + Size[entry[1]] > maxRequestBytes

TooFull == batch # <<>> /\ batchBytes + 1 + Size[entry[1]] > maxRequestBytes

AddFlushesFirst ==
  /\ pc = "add"
  /\ emptyRequestBytes + Size[entry[1]] <= maxRequestBytes
  /\ TooFull
  /\ \E r, b \in Outcomes : flush(r, b)
  /\ UNCHANGED <<otherVars, pc, draining, ch, entry>>

AddAppends ==
  /\ pc = "add"
  /\ emptyRequestBytes + Size[entry[1]] <= maxRequestBytes
  /\ ~TooFull
  /\ batch' = Append(batch, entry[1])
  /\ batchBytes' = batchBytes + Size[entry[1]] + (IF batch = <<>> THEN 0 ELSE 1)
  /\ entry' = <<>>
  /\ pc' = IF Len(batch) + 1 >= BatchSize THEN "full" ELSE "top"
  /\ UNCHANGED <<otherVars, draining, ch, sendFailed, retry, netVars>>

AddFlushesAfter ==
  /\ pc = "full"
  /\ \E r, b \in Outcomes : flush(r, b)
  /\ pc' = "top"
  /\ UNCHANGED <<otherVars, draining, ch, entry>>

\* The context expired: everything unsent is counted, and left where it is.
DrainExpires ==
  /\ pc = "top" /\ draining /\ expired
  /\ sendFailed' = sendFailed + Len(batch) + Len(retry) + Len(ch)
  /\ pc' = "exit"
  /\ UNCHANGED <<otherVars, draining, ch, entry, batchVars, netVars>>

\* The final flush of the drain.
DrainFlushes ==
  /\ pc = "top" /\ draining /\ ~expired
  /\ ch = <<>>
  /\ \E r, b \in Outcomes : flush(r, b)
  /\ pc' = "drained"
  /\ UNCHANGED <<otherVars, draining, ch, entry>>

DrainEnds ==
  /\ pc = "drained"
  /\ sendFailed' = sendFailed + Len(retry)
  /\ pc' = "exit"
  /\ UNCHANGED <<otherVars, draining, ch, entry, batchVars, netVars>>

Loop ==
  \/ Top \/ SelectDone \/ Tick \/ Take
  \/ AddRejects \/ AddFlushesFirst \/ AddAppends \/ AddFlushesAfter
  \/ DrainExpires \/ DrainFlushes \/ DrainEnds

Shutdown == ShutdownStarts \/ ShutdownLocks \/ ShutdownPasses \/ ShutdownCloses

Next ==
  \/ HandleRefused
  \/ \E p \in Callers : HandleEnters(p) \/ HandleChecks(p) \/ HandlePushes(p)
  \/ Shutdown
  \/ ContextExpires
  \/ Loop

Spec == Init /\ [][Next]_vars

\* The goroutines run; a send ends by its timeout; a Handle call returns.
\* Nobody has to log, to call Shutdown or to let its context expire.
Fairness ==
  /\ \A p \in Callers : WF_vars(HandleChecks(p)) /\ WF_vars(HandlePushes(p))
  /\ WF_vars(ShutdownLocks) /\ WF_vars(ShutdownPasses) /\ WF_vars(ShutdownCloses)
  /\ WF_vars(Loop)

FairSpec == Spec /\ Fairness

-----------------------------------------------------------------------------
(* Properties *)

\* The shipper's state keeps its types, the channel its capacity.
TypeOK ==
  /\ calls \in 0..MaxCalls /\ accepted \in 0..MaxCalls
  /\ returned \in Nat /\ dropped \in Nat /\ sendFailed \in Nat /\ acked \in Nat
  /\ hpc \in [Callers -> {"idle", "entered", "pushing"}]
  /\ ch \in Seq(Entries) /\ Len(ch) <= BufferSize
  /\ shut \in {"open", "closing", "waiting", "passed", "done"}
  /\ expired \in BOOLEAN /\ draining \in BOOLEAN
  /\ pc \in {"top", "select", "add", "full", "drained", "exit"}
  /\ entry \in Seq(Entries) /\ batch \in Seq(Entries) /\ retry \in Seq(Entries)
  /\ batchBytes \in Nat

\* Entries that are still on their way.
Pending ==
  IF pc = "exit" THEN 0 ELSE Len(ch) + Len(entry) + Len(batch) + Len(retry)

\* "no entry is lost silently after shutdown": every call of Handle that has
\* returned has its entry acknowledged, counted once in Dropped() or
\* SendFailed(), or still pending, whatever races with Shutdown; when the
\* goroutine has exited nothing is pending.
EveryEntryAccounted == returned = dropped + sendFailed + acked + Pending

\* The bytes of a request: its entries and the commas between them.
Bytes(es) ==
  LET upTo[n \in 0..Len(es)] ==
        IF n = 0 THEN emptyRequestBytes
        ELSE upTo[n - 1] + Size[es[n]] + (IF n = 1 THEN 0 ELSE 1)
  IN  upTo[Len(es)]

\* "no request holds more than BatchSize entries or maxRequestBytes", the
\* resent ones included.
RequestsWithinLimits ==
  \A k \in 1..Len(requests) :
    /\ Len(requests[k]) <= BatchSize
    /\ Bytes(requests[k]) <= maxRequestBytes

\* The server gets the entries in the order they were accepted, apart from one
\* repetition of a request that it took and did not acknowledge: a batch is
\* kept for one resend, and no newer batch overtakes it.
DeliveredInOrder ==
  \A j, k \in 1..Len(requests) :
    j < k => \/ requests[j] = requests[k] /\ k = j + 1
             \/ requests[j][Len(requests[j])] < requests[k][1]

\* What the server gets are whole batches in order, resent at most once.
RequestsCorrect == RequestsWithinLimits /\ DeliveredInOrder

\* Shutdown ends the goroutine, however many entries are buffered and whatever
\* the server answers.
ShutdownEnds == shut = "closing" ~> pc = "exit"
=============================================================================
