SPECIFICATION Spec
CONSTANTS
  Jtis = {j1, j2}
  Callers = {c1, c2}
  TTL = 2
  MaxLifetime = 2
  MaxTime = 3
  MaxVersions = 4
  Puts <- MCPuts
  NoSession = noSession
SYMMETRY Symmetry
INVARIANT TokensWithinSession
 
PROPERTY TokensFollowStore
CHECK_DEADLOCK FALSE
