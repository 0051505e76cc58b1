-------------------------- MODULE MCAnalysisReports --------------------------
EXTENDS AnalysisReports

CONSTANTS c1, scheduler, none

MCIds == 1 .. 2

Schedule(freq, day, channel) ==
  [enabled |-> TRUE, feed |-> "srvlog", freq |-> freq, day |-> day, at |-> 1, notify |-> {channel}]

\* A daily schedule, and two the handler refuses: a day out of range, a channel
\* that is not an email channel.
MCScheduleInputs ==
  {Schedule("daily", none, "email"), Schedule("weekly", 7, "email"), Schedule("daily", none, "slack")}

\* A report on everything, and one whose scope is not its feed's.
Report(mode, scope) == [feed |-> "srvlog", mode |-> mode, scope |-> scope, minutes |-> 60]
MCReportInputs == {Report("daily", "all"), Report("daily", "services")}
=============================================================================
