SPECIFICATION Spec
CONSTANTS
  fetch = fetch
  ping = ping
  scope = scope
  Scopes = {scope}
  NoScope = noScope
  Names = {fetch, ping, ghost}
  ScopeOf <- MCScopeOf
  Consents = {q1}
  ScopeAsked <- MCScopeAsked
  Deciders = {d1, d2}
  Calls = {c1, c2}
  TTL = 1
  MaxLoad = 1
  MaxTime = 2
  NoEntry = noEntry
INVARIANT OneDecision
INVARIANT ConsentBehindExecution
INVARIANT StalenessBounded
SYMMETRY Symmetry
CHECK_DEADLOCK FALSE
