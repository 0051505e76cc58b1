CONSTANTS
  s1 = s1
  s2 = s2
  browser = browser
  Subs = {s1}
  Clients = {browser}
  KeyOf <- MCKeyOf
  maxSubscribers = 2
  maxSubscribersPerClient = 2
  subscriptionBufferSize = 1
  MaxId = 2
  MaxRepeats = 1
  sseBackfillLimit = 3
  Wants <- MCWants
  Orders <- NoOrder
SPECIFICATION Spec
INVARIANT
  NothingLostInBetween
CHECK_DEADLOCK FALSE
