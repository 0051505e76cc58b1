----------------------------- MODULE ReportShape -------------------------------
(***************************************************************************)
(* The rules a model's reply must meet before it is kept as a report       *)
(* (internal/analyzer/structure.go).  A reply is a sequence of lines; a    *)
(* line is <<"h2", title, how it is written>>, <<"fence">>, <<"blank">> or *)
(* <<"text", the status token it holds or "">>.                            *)
(***************************************************************************)
EXTENDS Integers, Sequences, SequencesExt, FiniteSets

CONSTANTS dailyLines, applogLines       \* the line caps of the daily briefs

incidentHeaders ==
  <<"Verdict", "What's Happening", "Likely Cause", "Immediate Actions", "Standing Down">>

\* lineCap 0 is no cap.
reportShapes ==
  [daily |->
     [headers |-> <<"TL;DR", "Needs Action", "What Happened", "Watch">>,
      firstRule |-> "status", lineCap |-> dailyLines],
   weekly |->
     [headers |-> <<"TL;DR", "Trend Movers", "Chronic Hosts", "New Surface Area",
                    "Correlations Worth Naming", "Engineering Focus">>,
      firstRule |-> "trend", lineCap |-> 0],
   incident |-> [headers |-> incidentHeaders, firstRule |-> "verdict", lineCap |-> 0],
   applog_daily |->
     [headers |-> <<"New errors and warnings", "Top recurring errors and warnings",
                    "Volume vs last week", "Silent and new services", "Log hygiene">>,
      firstRule |-> "status", lineCap |-> applogLines],
   applog_incident |-> [headers |-> incidentHeaders, firstRule |-> "verdict", lineCap |-> 0]]

\* The handlers refuse a weekly report on applog, which would have no shape.
reportKind(feed, mode) ==
  CASE feed # "applog"    -> mode
    [] mode = "daily"     -> "applog_daily"
    [] mode = "incident"  -> "applog_incident"
    [] OTHER              -> "applog_other"

\* Case, spacing and trailing punctuation do not count.
normalizeHeader(line) == line[2]

\* The titles outside fenced code.
extractH2Headers(reply) ==
  FoldLeft(LAMBDA st, line :
             IF line[1] = "fence" THEN [st EXCEPT !.inFence = ~@]
             ELSE IF line[1] = "h2" /\ ~st.inFence
             THEN [st EXCEPT !.headers = Append(@, normalizeHeader(line))]
             ELSE st,
           [inFence |-> FALSE, headers |-> <<>>], reply).headers

\* The lines after the first title that matches, up to the next title.
extractSection(reply, header) ==
  FoldLeft(LAMBDA st, line :
             LET title   == line[1] = "h2" /\ ~st.inFence
                 toggled == [st EXCEPT !.inFence = IF line[1] = "fence" THEN ~@ ELSE @]
             IN  IF title
                 THEN IF st.at = "inside" THEN [st EXCEPT !.at = "after"]
                      ELSE IF st.at = "before" /\ normalizeHeader(line) = header
                      THEN [st EXCEPT !.at = "inside"] ELSE st
                 ELSE IF st.at = "inside" THEN [toggled EXCEPT !.body = Append(@, line)] ELSE toggled,
           [inFence |-> FALSE, at |-> "before", body |-> <<>>], reply).body

validateStructure(reply, required) == required = <<>> \/ extractH2Headers(reply) = required

validateFirstSection(reply, rule, firstHeader) ==
  \E i \in DOMAIN extractSection(reply, firstHeader) :
    extractSection(reply, firstHeader)[i] = <<"text", rule>>

validateLength(reply, lineCap) ==
  lineCap <= 0 \/ Cardinality({i \in DOMAIN reply : reply[i] # <<"blank">>}) <= lineCap

validateShape(reply, shape) ==
  /\ validateStructure(reply, shape.headers)
  /\ validateFirstSection(reply, shape.firstRule, shape.headers[1])
  /\ validateLength(reply, shape.lineCap)

\* A kind without a shape is not checked.
validateReport(reply, kind) ==
  kind \in DOMAIN reportShapes => validateShape(reply, reportShapes[kind])

-----------------------------------------------------------------------------
(* What the rules mean, said of the lines themselves *)

Fenced(reply, i) == Cardinality({j \in 1..(i - 1) : reply[j][1] = "fence"}) % 2 = 1
Title(reply, i) == reply[i][1] = "h2" /\ ~Fenced(reply, i)

\* The titles are the required ones in order, the rule's token is between the
\* first and the second, and the lines with text fit the cap.
WellFormed(reply, shape) ==
  LET titles == SelectSeq([i \in DOMAIN reply |-> i], LAMBDA i : Title(reply, i))
      ends   == IF Len(titles) > 1 THEN titles[2] ELSE Len(reply) + 1
  IN  /\ [n \in DOMAIN titles |-> reply[titles[n]][2]] = shape.headers
      /\ \E i \in (titles[1] + 1)..(ends - 1) : reply[i] = <<"text", shape.firstRule>>
      /\ shape.lineCap > 0 => Len(SelectSeq(reply, LAMBDA l : l # <<"blank">>)) <= shape.lineCap
===============================================================================
