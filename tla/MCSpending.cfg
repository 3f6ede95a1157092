SPECIFICATION MCSpec
CONSTANTS
  h1 = h1  h2 = h2  h3 = h3
  r1 = r1  r2 = r2
  u1 = u1  org = org
  haiku = haiku  sonnet = sonnet  other = other
  primary = primary  fallback = fallback
  Harnesses = {h1, h2, h3}
  Runs <- MCRuns
  RunOf <- MCRunOf
  Users <- MCUsers
  Orgs <- MCOrgs
  UserOf <- MCUserOf
  OrgOf <- MCOrgOf
  Models = {haiku, sonnet, other}
  Priced = {haiku, sonnet}
  Providers <- MCProviders
  Serves <- MCServes
  Limit <- MCLimit
  Retries = 1
  Costs = {1, 2}
  MaxCalls = 2
INVARIANT AlertOnce
INVARIANT OverspendBounded
INVARIANT AnswersAreMetered
PROPERTY CompletionsEnd
CHECK_DEADLOCK FALSE
