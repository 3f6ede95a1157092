SPECIFICATION MCSpec
CONSTANTS
  Clients = {c1, c2, c3}
  Agents = {a1}
  Specs = {x, y}
  NoAgent = noAgent
  NoSpec = noSpec
  MaxVersion = 4
  Callers = {c1, c2, c3}
  Requests <- MCRequests
  TTL = 2
  MaxEntries = 1
  MaxTime = 2
  MaxRuns = 2
INVARIANT VersionsDense
PROPERTY PublishedIsImmutable
PROPERTY CurrentFollowsPublish
INVARIANT NothingForgotten
INVARIANT ServedAsAsked
PROPERTY EvictionBounds
SYMMETRY Symmetry
CHECK_DEADLOCK FALSE
