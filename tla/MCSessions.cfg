SPECIFICATION MCSpec
CONSTANTS
  org = org
  a = a
  b = b
  web = web
  main = main
  slash = slash
  Dash = dash
  Safe <- MCSafe
  NoManifest = noManifest
  None = none
  Work <- MCColliding
  h1 = h1
  h2 = h2
  Hooks = {h1, h2}
  Acquirers = {c1, c2}
  WithDiffs = {c1}
  Pods = {1, 2, 3}
  Replenishers = {r1, r2}
  Targets = {1, 2}
  MaxPerKey = 1
  IdleMaxAge = 1
  MaxTime = 1
  Calls = {k1, k2}
  u1 = u1
  u2 = u2
  Users <- MCUsers
  Servers <- MCServers
  Tools <- MCTools
  Grants <- MCGrants
  NoSession = noSession
  MaxDials = 3
INVARIANT ManifestRecoverable
INVARIANT PlanIsSound
INVARIANT OnePlace
INVARIANT PoolBounded
INVARIANT ConnectionsAccounted
INVARIANT CallsStayWithUser
SYMMETRY Symmetry
CHECK_DEADLOCK FALSE
