--------------------------- MODULE TaillightShipper ---------------------------
(***************************************************************************)
(* The taillight-shipper command (api/cmd/taillight-shipper): one reader   *)
(* of standard input and one tailer of a log file, each with a handler of  *)
(* its own, created before the readers start and shut down after they end. *)
(*                                                                         *)
(* The log file is written, rotated (renamed, then created anew) and       *)
(* truncated by other programs while the tailer reads it.  A file is a     *)
(* sequence of tokens: 2n - 1 and 2n are the halves of the text of line n, *)
(* NL the end of a line; these may be written apart.  The files are        *)
(* numbered in the order of their creation, which stands for their inodes: *)
(* the tailer holds its file open, so that its inode is not used again.    *)
(*                                                                         *)
(* A handler is LogShipper's; here it is open or shut, and keeps what it   *)
(* was handed.                                                             *)
(***************************************************************************)
EXTENDS Integers, Sequences, FiniteSets, SequencesExt

NL == 0

CONSTANTS
  Pieces,                   \* bound: what is written to the log, in turn
  MaxFaults,                \* bound: rotations and truncations of the log
  MaxStdin,                 \* bound: lines on standard input
  Text                      \* what each line of the log says

ASSUME ShipperCommandAssumption ==
  /\ MaxFaults \in Nat /\ MaxStdin \in Nat
  /\ FlattenSeq(Pieces) = FlattenSeq([n \in DOMAIN Text |-> <<2 * n - 1, 2 * n, NL>>])

NoFile == 0
Sources == <<"stdin", "file">>

VARIABLES
  \* The log, as its writers leave it.
  files,                    \* the contents of every file that was at the path
  path,                     \* the file at the path, or NoFile
  wfd,                      \* the file its writer holds
  wrote,                    \* pieces written
  faults,
  \* The command.
  cancelled,                \* a signal has cancelled ctx
  main,                     \* create, running, shutting, exited
  handlers,                 \* of each source with a handler: open or shut
  stdin,                    \* [pc, left]: the reader, and the lines to come
  tail,                     \* the state of tailFile
  \* Observation only.
  handed,                   \* the lines handed to the file's handler
  refused,                  \* lines handed to a handler that was shut
  seen,                     \* of each file: the part the tailer has read
  cut,                      \* files truncated without the tailer knowing
  regrown,                  \* one of these has grown past what it had read
  crossed,                  \* the path changed between its stat and its open
  broken                    \* lines whose file was opened, left or emptied half-way

diskVars == <<files, path, wfd, wrote, faults>>
mainVars == <<cancelled, main, handlers, stdin>>
seenVars == <<seen, cut, regrown, crossed, broken>>
vars == <<diskVars, mainVars, tail, handed, refused, seenVars>>

Init ==
  /\ files = <<<<>>>> /\ path = 1 /\ wfd = 1
  /\ wrote = 0 /\ faults = 0
  /\ cancelled = FALSE /\ main = "create" /\ handlers = <<>>
  /\ stdin = [pc |-> "idle", left |-> MaxStdin]
  /\ tail = [pc |-> "idle", fd |-> NoFile, inode |-> NoFile, stat |-> NoFile,
             off |-> 0, buf |-> <<>>, partial |-> <<>>]
  /\ handed = <<>> /\ refused = 0
  /\ seen = <<>> /\ cut = {} /\ regrown = FALSE /\ crossed = FALSE
  /\ broken = {}

-----------------------------------------------------------------------------
(* The writers of the log *)

\* Bound: what happens to the log before its tailer starts, with an empty file,
\* and after it has ended is left out, and so is what happens between the signal
\* and its end: the tailer does nothing else for the signal, so that the change
\* may as well come first.
Watched == tail.pc \notin {"idle", "done"} /\ ~cancelled

\* The line of a half, and the line of which tokens end with the first half.
Line(t) == (t + 1) \div 2
Unfinished(tokens) ==
  {Line(t) : t \in {t \in ToSet(tokens) : t % 2 = 1 /\ t = Last(tokens)}}

\* The next piece is appended to the file the writer holds.
Writes ==
  /\ Watched
  /\ wrote < Len(Pieces)
  /\ wrote' = wrote + 1
  /\ files' = [files EXCEPT ![wfd] = @ \o Pieces[wrote']]
  /\ UNCHANGED <<path, wfd, faults, mainVars, tail, handed, refused, seenVars>>

\* logrotate renames the file and creates another; the writer goes on with the
\* old one until it opens the path again.
Renames ==
  /\ Watched
  /\ faults < MaxFaults /\ path # NoFile
  /\ faults' = faults + 1
  /\ path' = NoFile
  /\ UNCHANGED <<files, wfd, wrote, mainVars, tail, handed, refused, seenVars>>

Creates ==
  /\ Watched
  /\ path = NoFile
  /\ files' = Append(files, <<>>)
  /\ path' = Len(files) + 1
  /\ UNCHANGED <<wfd, wrote, faults, mainVars, tail, handed, refused, seenVars>>

WriterReopens ==
  /\ Watched
  /\ path # NoFile /\ wfd # path
  /\ wfd' = path
  /\ broken' = broken \cup Unfinished(files[wfd])
  /\ UNCHANGED <<files, path, wrote, faults, mainVars, tail, handed, refused,
                 seen, cut, regrown, crossed>>

\* copytruncate
Truncates ==
  /\ Watched
  /\ faults < MaxFaults /\ path # NoFile /\ files[path] # <<>>
  /\ faults' = faults + 1
  /\ files' = [files EXCEPT ![path] = <<>>]
  /\ cut' = IF tail.fd = path /\ tail.off > 0 THEN cut \cup {path} ELSE cut
  /\ broken' = broken \cup Unfinished(files[path])
  /\ UNCHANGED <<path, wfd, wrote, mainVars, tail, handed, refused,
                 seen, regrown, crossed>>

-----------------------------------------------------------------------------
(* parse.go: a line is [json |-> FALSE], or a JSON object whose fields are  *)
(* a function from keys to values [string |-> s] or [other |-> v]; a string *)
(* that reads as a time is "t1", "t2"                                       *)

Times == {"t1", "t2"}
now == "now"

IsString(v) == "string" \in DOMAIN v
Without(m, ks) == [k \in DOMAIN m \ ks |-> m[k]]

IsTime(v) == IsString(v) /\ v.string \in Times
StringsOf(m) == {k \in DOMAIN m : IsString(m[k])}
TimesOf(m) == {k \in DOMAIN m : IsTime(m[k])}

\* Of the names a field may have, those up to the first that fits are deleted.
Deleted(names, fits) ==
  {names[i] : i \in {i \in DOMAIN names : \A j \in 1..(i - 1) : names[j] \notin fits}}
Extracted(m, names, fits, default) ==
  LET found == {i \in DOMAIN names : names[i] \in fits}
  IN  IF found = {} THEN default
      ELSE m[names[CHOOSE i \in found : \A j \in found : i <= j]].string

timeKeys == <<"time", "timestamp">>
extractTime(m) == Extracted(m, timeKeys, TimesOf(m), now)

\* Level names stand for all their spellings in either case.
Levels == [TRACE |-> "debug", DEBUG |-> "debug", INFO |-> "info", WARN |-> "warn",
           WARNING |-> "warn", ERROR |-> "error", FATAL |-> "fatal",
           CRITICAL |-> "fatal", PANIC |-> "fatal"]
extractLevel(m) ==
  IF "level" \in DOMAIN m /\ IsString(m.level) /\ m.level.string \in DOMAIN Levels
  THEN Levels[m.level.string] ELSE "info"

msgKeys == <<"msg", "message">>
extractString(m, keys) == Extracted(m, keys, StringsOf(m), "")

\* Mutant: every name of the message is deleted, read or not.
JsonDropsSpare(m) ==
  LET timed   == Without(m, Deleted(timeKeys, TimesOf(m)))
      leveled == Without(timed, {"level"})
  IN  [time |-> extractTime(m), level |-> extractLevel(timed),
       msg |-> extractString(leveled, msgKeys),
       attrs |-> Without(leveled, ToSet(msgKeys))]

jsonRecord(m) ==
  LET timed   == Without(m, Deleted(timeKeys, TimesOf(m)))
      leveled == Without(timed, {"level"})
  IN  [time |-> extractTime(m), level |-> extractLevel(timed),
       msg |-> extractString(leveled, msgKeys),
       attrs |-> Without(leveled, Deleted(msgKeys, StringsOf(leveled)))]

plainRecord(line) == [time |-> now, level |-> "info", msg |-> line, attrs |-> <<>>]

\* A line is the tokens it was put together from; half an object is no JSON.
IsWhole(line) ==
  Len(line) = 2 /\ line[1] % 2 = 1 /\ line[2] = line[1] + 1
parseLine(line) ==
  IF IsWhole(line) /\ Text[Line(line[1])].json
  THEN jsonRecord(Text[Line(line[1])].fields)
  ELSE plainRecord(line)

-----------------------------------------------------------------------------
(* tailer.go *)

\* Handle does not block: the handler takes the record of the line, parseLine of
\* it, or drops it once it is shut.
Handle(i, line) ==
  IF line = <<>> THEN UNCHANGED <<handed, refused>>
  ELSE IF handlers[i] = "open"
  THEN /\ handed' = Append(handed, line)
       /\ UNCHANGED refused
  ELSE /\ refused' = refused + 1
       /\ UNCHANGED handed

File == 2                   \* the place of the file in Sources

\* The tailer has read the file it holds from one token to another.
Sees(fd, from, to) ==
  seen' = [f \in 1..Len(files) |->
             IF f = fd THEN [from |-> from, to |-> to]
             ELSE IF f <= Len(seen) THEN seen[f] ELSE [from |-> 0, to |-> 0]]

\* The file is opened at its end; without a file the tailer ends.
TailOpens ==
  /\ tail.pc = "open"
  /\ IF path = NoFile
     THEN tail' = [tail EXCEPT !.pc = "done"] /\ UNCHANGED <<seen, broken>>
     ELSE LET end == Len(files[path])
          IN  /\ tail' = [tail EXCEPT !.pc = "read", !.fd = path, !.inode = path,
                                     !.off = end]
              /\ Sees(path, end, end)
              /\ broken' = broken \cup Unfinished(files[path])
  /\ UNCHANGED <<diskVars, mainVars, handed, refused, cut, regrown, crossed>>

TextOf(tokens) == SelectSeq(tokens, LAMBDA t : t # NL)
EndOf(tokens) == CHOOSE i \in DOMAIN tokens :
                   tokens[i] = NL /\ \A j \in 1..(i - 1) : tokens[j] # NL

\* Mutant: what was read of the line before is handed over again.
KeepsPartial ==
  /\ tail.pc = "read" /\ NL \in ToSet(tail.buf)
  /\ LET end == EndOf(tail.buf)
     IN  /\ Handle(File, tail.partial \o TextOf(SubSeq(tail.buf, 1, end)))
         /\ tail' = [tail EXCEPT !.buf = SubSeq(@, end + 1, Len(@))]
  /\ UNCHANGED <<diskVars, mainVars, seenVars>>

\* A complete line in the reader's buffer is handed over with what was read of
\* it before; an empty one is skipped.
TailLine ==
  /\ tail.pc = "read" /\ NL \in ToSet(tail.buf)
  /\ LET end == EndOf(tail.buf)
     IN  /\ Handle(File, tail.partial \o TextOf(SubSeq(tail.buf, 1, end)))
         /\ tail' = [tail EXCEPT !.buf = SubSeq(@, end + 1, Len(@)),
                                !.partial = <<>>]
  /\ UNCHANGED <<diskVars, mainVars, seenVars>>

\* The buffer is filled from the file, from where the last read ended.
TailFills ==
  /\ tail.pc = "read" /\ NL \notin ToSet(tail.buf)
  /\ LET data == files[tail.fd]
     IN  /\ tail.off < Len(data)
         /\ tail' = [tail EXCEPT !.buf = @ \o SubSeq(data, tail.off + 1, Len(data)),
                                !.off = Len(data)]
         /\ Sees(tail.fd, seen[tail.fd].from, Len(data))
  /\ regrown' = (regrown \/ tail.fd \in cut)
  /\ UNCHANGED <<diskVars, mainVars, handed, refused, cut, crossed, broken>>

\* The end of the file: what is left of the buffer begins a line.
TailEOF ==
  /\ tail.pc = "read" /\ NL \notin ToSet(tail.buf)
  /\ tail.off >= Len(files[tail.fd])
  /\ tail' = [tail EXCEPT !.pc = "check", !.buf = <<>>, !.partial = @ \o tail.buf]
  /\ UNCHANGED <<diskVars, mainVars, handed, refused, seenVars>>

\* Any other error ends the tailer.
TailFails ==
  /\ tail.pc = "read"
  /\ tail' = [tail EXCEPT !.pc = "done"]
  /\ UNCHANGED <<diskVars, mainVars, handed, refused, seenVars>>

\* checkRotation, up to its stat of the path: nothing there, another file, a
\* file shorter than what was read of it, or neither.
CheckStats ==
  /\ tail.pc = "check"
  /\ \/ /\ path = NoFile
        /\ tail' = [tail EXCEPT !.pc = "wait"]
        /\ UNCHANGED <<handed, refused, seenVars>>
     \/ /\ path \notin {NoFile, tail.inode}
        /\ tail' = [tail EXCEPT !.pc = "reopen", !.stat = path]
        /\ UNCHANGED <<handed, refused, seenVars>>
     \/ /\ path = tail.inode /\ Len(files[path]) < tail.off
        /\ Handle(File, tail.partial)
        /\ tail' = [tail EXCEPT !.pc = "read", !.partial = <<>>, !.off = 0]
        /\ Sees(tail.fd, 0, 0)
        /\ cut' = cut \ {tail.fd}
        /\ broken' = broken \cup Unfinished(tail.partial)
        /\ UNCHANGED <<regrown, crossed>>
     \/ /\ path = tail.inode /\ Len(files[path]) >= tail.off
        /\ tail' = [tail EXCEPT !.pc = "wait"]
        /\ UNCHANGED <<handed, refused, seenVars>>
  /\ UNCHANGED <<diskVars, mainVars>>

\* Mutant: the new file is opened at its end, like the first.
ReopensAtEnd ==
  /\ tail.pc = "reopen" /\ path # NoFile
  /\ Handle(File, tail.partial)
  /\ tail' = [tail EXCEPT !.pc = "read", !.partial = <<>>, !.fd = path,
                         !.inode = tail.stat, !.off = Len(files[path])]
  /\ Sees(path, 0, Len(files[path]))
  /\ UNCHANGED <<diskVars, mainVars, cut, regrown, crossed, broken>>

\* The path is opened after its stat; it may be gone, or another file by now.
\* What was read of a line of the old file is handed over as it is.
CheckReopens ==
  /\ tail.pc = "reopen"
  /\ IF path = NoFile
     THEN /\ tail' = [tail EXCEPT !.pc = "wait", !.stat = NoFile]
          /\ UNCHANGED <<handed, refused, seen, crossed, broken>>
     ELSE /\ Handle(File, tail.partial)
          /\ tail' = [tail EXCEPT !.pc = "read", !.partial = <<>>, !.fd = path,
                                 !.inode = tail.stat, !.stat = NoFile, !.off = 0]
          /\ Sees(path, 0, 0)
          /\ crossed' = (crossed \/ path # tail.stat)
          /\ broken' = broken \cup Unfinished(tail.partial)
  /\ UNCHANGED <<diskVars, mainVars, cut, regrown>>

\* The next poll, or the signal; with both ready either is taken.  What was
\* read of a line that has no end yet is not handed over.
TailWaits ==
  /\ tail.pc = "wait"
  /\ \/ tail' = [tail EXCEPT !.pc = "read"]
     \/ cancelled /\ tail' = [tail EXCEPT !.pc = "done"]
  /\ UNCHANGED <<diskVars, mainVars, handed, refused, seenVars>>

tailFile ==
  \/ TailOpens \/ TailLine \/ TailFills \/ TailEOF
  \/ CheckStats \/ CheckReopens \/ TailWaits

-----------------------------------------------------------------------------
(* main.go *)

fileVars == <<diskVars, handed, seenVars>>

\* The handlers are created in turn; if one cannot be, those before it are shut
\* down and the command ends.
newHandlers ==
  /\ main = "create" /\ Len(handlers) < Len(Sources)
  /\ \/ handlers' = Append(handlers, "open") /\ UNCHANGED main
     \/ main' = "shutting" /\ UNCHANGED handlers
  /\ UNCHANGED <<cancelled, stdin, tail, refused, fileVars>>

StartReaders ==
  /\ main = "create" /\ Len(handlers) = Len(Sources)
  /\ main' = "running"
  /\ stdin' = [stdin EXCEPT !.pc = "scan"]
  /\ tail' = [tail EXCEPT !.pc = "open"]
  /\ UNCHANGED <<cancelled, handlers, refused, fileVars>>

\* SIGINT or SIGTERM.
Signal ==
  /\ ~cancelled /\ main = "running"
  /\ cancelled' = TRUE
  /\ UNCHANGED <<main, handlers, stdin, tail, refused, fileVars>>

\* readStdin: a line is read, then ctx looked at, then the line handed over.
ScanReads ==
  /\ stdin.pc = "scan" /\ stdin.left > 0
  /\ stdin' = [pc |-> IF cancelled THEN "done" ELSE "handle", left |-> stdin.left - 1]
  /\ UNCHANGED <<cancelled, main, handlers, tail, refused, fileVars>>

ScanHandles ==
  /\ stdin.pc = "handle"
  /\ stdin' = [stdin EXCEPT !.pc = "scan"]
  /\ refused' = refused + (IF handlers[1] = "open" THEN 0 ELSE 1)
  /\ UNCHANGED <<cancelled, main, handlers, tail, fileVars>>

\* The end of standard input, an error (a line over 1 MB is one), or the close
\* that a signal brings.
ScanEnds ==
  /\ stdin.pc = "scan"
  /\ stdin' = [pc |-> "done", left |-> 0]
  /\ UNCHANGED <<cancelled, main, handlers, tail, refused, fileVars>>

\* Mutant: the signal ends the wait.
WaitSignalled ==
  /\ main = "running" /\ (cancelled \/ (stdin.pc = "done" /\ tail.pc = "done"))
  /\ main' = "shutting"
  /\ UNCHANGED <<cancelled, handlers, stdin, tail, refused, fileVars>>

\* wg.Wait
Wait ==
  /\ main = "running" /\ stdin.pc = "done" /\ tail.pc = "done"
  /\ main' = "shutting"
  /\ UNCHANGED <<cancelled, handlers, stdin, tail, refused, fileVars>>

\* The handlers are shut down in turn, each within three seconds.
shutdown ==
  /\ main = "shutting"
  /\ IF "open" \in ToSet(handlers)
     THEN LET i == CHOOSE i \in DOMAIN handlers :
                     handlers[i] = "open" /\ \A j \in 1..(i - 1) : handlers[j] = "shut"
          IN  handlers' = [handlers EXCEPT ![i] = "shut"] /\ UNCHANGED main
     ELSE main' = "exited" /\ UNCHANGED handlers
  /\ UNCHANGED <<cancelled, stdin, tail, refused, fileVars>>

run == newHandlers \/ StartReaders \/ Wait \/ shutdown

Next ==
  \/ Writes \/ Renames \/ Creates \/ WriterReopens \/ Truncates
  \/ tailFile \/ TailFails
  \/ Signal
  \/ ScanReads \/ ScanHandles \/ ScanEnds
  \/ run

Spec == Init /\ [][Next]_vars

\* The goroutines run, and a select with a poll and the signal both ready takes
\* each of them again and again.  Nobody has to write, to rotate, to create the
\* file or to send the signal; and standard input need not end, for its close
\* does not wake a read that waits on a pipe.
Fairness ==
  /\ WF_vars(run) /\ WF_vars(tailFile)
  /\ SF_vars(TailWaits /\ tail'.pc = "done")
  /\ WF_vars(ScanHandles)

FairSpec == Spec /\ Fairness

-----------------------------------------------------------------------------
(* Properties *)

\* tailFile "sends each new complete line": whatever is written, renamed,
\* created and truncated between its steps, each record is one line, the lines
\* keep their order, nothing is repeated, and no text that was read is lost: it
\* was handed over or waits for its end.  Where the log was opened, rotated or
\* truncated in the middle of a line, that line is a record, or two, of its
\* halves.  Two races of the code are left out.  A file truncated and filled
\* again past what was read goes unnoticed; a path replaced between its stat
\* and its open is read twice.
LinesHandedOver ==
  LET texts == FlattenSeq(handed)
      kept  == ToSet(texts) \cup ToSet(tail.buf) \cup ToSet(tail.partial)
  IN  /\ regrown \/ \A k \in DOMAIN handed :
           \/ IsWhole(handed[k])
           \/ Len(handed[k]) = 1 /\ Line(handed[k][1]) \in broken
      /\ regrown \/ crossed
           \/ \A j, k \in DOMAIN texts : j < k => texts[j] < texts[k]
      /\ \A f \in DOMAIN seen \ cut : \A i \in (seen[f].from + 1)..seen[f].to :
           files[f][i] = NL \/ files[f][i] \in kept

\* A record says what its line says: each field of a JSON line is its time, its
\* level, its message or an attribute under its own name, the second of two
\* times or messages included; only a value that cannot be one is left out.
\* Any other line, and what is left of a broken one, is the message.
RecordsSayWhatLinesSay ==
  \A k \in DOMAIN handed :
    LET rec    == parseLine(handed[k])
        line   == Text[Line(handed[k][1])]
        fields == line.fields
        Says(key) ==
          \/ key \in DOMAIN rec.attrs /\ rec.attrs[key] = fields[key]
          \/ key = "level" /\ (fields[key] \in {[string |-> l] : l \in DOMAIN Levels}
                                 => rec.level = Levels[fields[key].string])
          \/ key \in ToSet(timeKeys) /\ (IsTime(fields[key]) => rec.time = fields[key].string)
          \/ key \in ToSet(msgKeys) /\ (IsString(fields[key]) => rec.msg = fields[key].string)
    IN  IF IsWhole(handed[k]) /\ line.json THEN \A key \in DOMAIN fields : Says(key)
        ELSE rec.msg = handed[k]

\* The tailer keeps up with rotation: in the end it holds the file at the path
\* and has handed over every complete line of it, unless it has ended, there
\* is no file, or the file was truncated and filled again between two polls.
FollowsTheFile ==
  <>[](\/ tail.pc \in {"idle", "done"}
       \/ path \in {NoFile} \cup cut
       \/ /\ tail.fd = path
          /\ \A i, j \in (seen[path].from + 1)..Len(files[path]) :
               i < j /\ files[path][i] # NL /\ files[path][j] = NL
                 => \E k \in DOMAIN handed : files[path][i] \in ToSet(handed[k]))

\* Once it was signalled and its standard input has ended the command exits,
\* with every handler shut down ("no handler is left running without a
\* shutdown") and none of them before its reader was through with it.
SignalEndsCommand ==
  (cancelled /\ stdin.pc = "done")
    ~> [](main = "exited" /\ refused = 0 /\ "open" \notin ToSet(handlers))
=============================================================================
