CONSTANTS
  srvlog = srvlog
  netlog = netlog
  channels <- TwoChannels
  MaxId = 3
  MaxCommits = 3
  MaxLosses = 2
  bufferSize = 1
  gapFillLimit = 2
SPECIFICATION FairSpec
INVARIANT
  EachRowHandedOut
PROPERTY
  ListenerProgress
CHECK_DEADLOCK FALSE
