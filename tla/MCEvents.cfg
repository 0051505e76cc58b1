SPECIFICATION AnalyzerSpec
CONSTANTS
  None = None
  Invalid = Invalid
  localeLowered <- MClocaleLowered
  w1 = w1
  tick = tick
  MuteIds <- MCMuteIds
  StartMutes <- MCStartMutes
  MuteInputs <- MCMuteInputs
  Durations <- MCDurations
  DefaultDuration = 1
  MaxDuration = 2
  Writers <- MCWriters
  Ticker = tick
  MaxTime = 1
  MaxSteps = 3
  StartRows <- MCStartRows
  Incoming <- MCIncoming
  Queries <- MCQueries
  Limits <- MCLimits
  HideParams <- MCHide
  Batches <- MCBatches
  defaultLimit = 1
  maxLimit = 1
  backfillLimit = 2
  exportPageSize = 1
  exportMaxRows = 3
  exportMaxSpan = 4
  applogMaxBatchSize = 2
  applogMaxLen <- MCapplogMaxLen
  AttrsPreviewLimit = 1
  Retention = 5
  Hour = 2
  Quarter = 1
  Day = 1
  Week = 2
  Ranges <- MCRanges
  topMessagesLimit = 2
  criticalLimit = 2
  topSourcesLimit = 2
  topErrorsPerHost = 1
  dailyLines = 9
  applogLines = 12
  AnalysisRuns <- MCAnalysisRuns
  Replies <- MCReplies
  FiveMinutes = 1
  SixHours = 1
  DayAndHalf = 2
  EightDays = 3
  topMsgIDLimit = 2
  topHostsPerMsgID = 1
  topHostLimit = 1
  topProgramLimit = 1
  topFacilityLimit = 1
  eventClusterLimit = 1
  newMsgIDLimit = 1
  topMsgIDSampleCount = 2
  caps <- MCcaps
  newTemplateRankMin = 2
  applogNewTemplatesHardCap = 3
  hygieneDominantMinEvents = 1
  hygieneDominantLimit = 1
INVARIANTS
  WalkComplete
  MutesAgree
  IngestAnswersTrue
  ViewsAddUp
  FiltersAgree
  ReportsHonest
