CONSTANTS
  r1 = r1
  g1 = g1
  c1 = c1
  h1 = h1
  w1 = w1
  w2 = w2
  Rules = {r1}
  Groups = {g1}
  maxFingerprintsPerRule = 1
  maxFingerprintsGlobal = 1
  MaxMatches = 2
  Channels = {c1}
  RuleRows <- MCRuleRows
  DefaultWindows <- MCDefaultWindows
  Handlers = {h1}
  Workers = {w1, w2}
  DispatchBuffer = 1
  MaxEdits = 1
SPECIFICATION FairSpec
INVARIANTS
  ShutdownIsClean
  FlushesDeliveredOnce
PROPERTIES
  SuppressorSpec
  EngineProgress
CHECK_DEADLOCK FALSE
