SPECIFICATION AccessSpec
CONSTANTS
  p1 = p1
  p2 = p2
  a1 = a1
  Processes = {p1, p2}
  ServerOf <- FirstServer
  Grants = {1, 2, 3}
  Issued <- Refreshable
  t1 = t1
  r1 = r1
  Accounts = {a1}
  ProviderOf <- OneAccount
  Configs <- OneConfig
  Sessions = {}
  Tokens = {}
  Requests = {r1}
  None = None
  MaxFaults = 0
INVARIANTS
  AccessTypeOK
  RevokedStaysOut
  DisableEndsSessions
  RefreshTokenKept
CHECK_DEADLOCK FALSE
