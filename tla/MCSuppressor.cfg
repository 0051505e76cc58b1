CONSTANTS
  r1 = r1
  g1 = g1
  g2 = g2
  g3 = g3
  Rules = {r1}
  Groups = {g1, g2, g3}
  Windows <- MCWindows
  maxFingerprintsPerRule = 2
  maxFingerprintsGlobal = 3
  MaxMatches = 2
SPECIFICATION FairSpec
INVARIANTS
  MatchesReported
  TrackingConsistent
  NoFlushAfterStop
PROPERTY
  SuppressionEnds
CHECK_DEADLOCK FALSE
