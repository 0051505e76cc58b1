SPECIFICATION Spec
CONSTANTS
  None = none
  none = none
  q1 = q1
  q2 = q2
  Ids <- MCIds
  Admin = 1
  Names = {"root", "ann"}
  Requests = {q1, q2}
  Directory <- MCDirectory
  GroupRoleMap <- MCGroupRoleMap
  Identities <- MCIdentities
  AdminGroups = {"ops"}
  AllowedGroups = {}
  AllowedDomains = {}
  AllowedUsers = {}
  EmailVerifiedRequired = TRUE
  KeyIds = {1}
  ScopeChoices = {{"admin"}}
  MaxSessions = 1
  MaxAttempts = 2
  TouchBuffer = 1
  MaxEdits = 1
  MaxFaults = 1
SYMMETRY Symmetry
INVARIANTS
  IdentityKeepsItsAccount
  SessionsInOrder
CHECK_DEADLOCK FALSE
