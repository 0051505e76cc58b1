CONSTANTS
  Pieces <- MCPieces
  MaxFaults = 2
  MaxStdin = 1
  Text <- MCText
SPECIFICATION FairSpec
INVARIANTS
  LinesHandedOver
  RecordsSayWhatLinesSay
PROPERTIES
  FollowsTheFile
  SignalEndsCommand
CHECK_DEADLOCK FALSE
