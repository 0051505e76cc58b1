CONSTANTS
  ChannelIds = {1, 2}
  RuleIds = {1}
  Requests = {q1, q2}
  ChannelInputs <- MCChannelInputs
  StartChannels <- MCStartChannels
  RuleInputs <- MCRuleInputs
  EngineEnabled = TRUE
  None = None
  Deleted = Deleted
  MaxEdits = 3
  SumIds = {1, 2}
  Triggers = {t1}
  Ticker = Ticker
  SummaryInputs <- MCSummaryInputs
  Issues <- MCIssues
  Day = 4
  MaxTime = 5
  MaxFaults = 1
SYMMETRY Symmetry
SPECIFICATION Spec
INVARIANTS
  SettingsSound
  SummariesSpaced
  TopIssuesAreTheTop
PROPERTIES
  MaskedSecretsSurvive
  DueSummaryGoesOut
  CreatedSchedulesAreSafe
CHECK_DEADLOCK FALSE
