SPECIFICATION FairSpec
CONSTANTS
  None = none
  none = none
  c1 = c1
  scheduler = scheduler
  Ids <- MCIds
  SchedIds = {1}
  Clients = {c1}
  Scheduler = scheduler
  QueueDepth = 1
  MaxSlugs = 2
  Day = 4
  FiringWindow = 1
  ReportInputs <- MCReportInputs
  ScheduleInputs <- MCScheduleInputs
  EmailChannels = {"email"}
  MaxFaults = 1
  MaxCrashes = 1
  MaxEdits = 3
  MaxTime = 3
INVARIANTS
  MailedReportsAreStored
  FiresOncePerWindow
PROPERTIES
  ReportsSettle
CHECK_DEADLOCK FALSE
