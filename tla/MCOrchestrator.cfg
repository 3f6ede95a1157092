SPECIFICATION FairSpec
CONSTANTS
  hook = hook
  again = again
  chat = chat
  k = k
  Requests = {hook, again, chat}
  Keys = {k}
  NoKey = noKey
  KeyOf <- MCKeyOf
  PriorityOf <- MCPriorityOf
  Workers = {w1, w2}
  NoRun = noRun
INVARIANT NoDuplicateRun
INVARIANT ReplyNamesRun
INVARIANT UnhandledStaysPending
PROPERTY QueuedIsDelivered
CHECK_DEADLOCK FALSE
