SPECIFICATION Spec
CONSTANTS
  Jtis = {j1}
  Callers = {c1}
  TTL = 2
  MaxLifetime = 2
  MaxTime = 3
  MaxVersions = 2
  Puts <- MCPuts
  NoSession = noSession
INVARIANT RevocationSurvivesRenewal
CHECK_DEADLOCK FALSE
