SPECIFICATION FairAccessSpec
CONSTANTS
  p1 = p1
  p2 = p2
  a1 = a1
  Processes = {p1}
  ServerOf <- FirstServer
  Grants = {1, 2}
  Issued <- Answers
  t1 = t1
  r1 = r1
  Accounts = {a1}
  ProviderOf <- OneAccount
  Configs <- TwoConfigs
  Sessions = {1}
  Tokens = {t1}
  Requests = {r1}
  None = None
  MaxFaults = 1
INVARIANTS
  AccessTypeOK
  RevokedStaysOut
  DisableEndsSessions
  RefreshTokenKept
PROPERTIES
  LeaversLoseAccess
CHECK_DEADLOCK FALSE
