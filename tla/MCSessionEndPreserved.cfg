SPECIFICATION EndSpec
CONSTANTS
  org = org
  a = a
  b = b
  web = web
  main = main
  slash = slash
  Dash = dash
  Safe <- MCSafe
  NoManifest = noManifest
  None = none
  Work <- MCTwo
  Hooks = {h1}
  Acquirers = {c1}
  WithDiffs = {c1}
  Pods = {p1}
  Replenishers = {}
  Targets = {1}
  MaxPerKey = 1
  IdleMaxAge = 1
  MaxTime = 0
INVARIANT WorkPreserved
CHECK_DEADLOCK FALSE
