SPECIFICATION FairSpec
CONSTANTS
  Controllers = {w1}
  MaxCrashes = 1
  MaxPodLosses = 1
INVARIANT TerminatedHasNoPod
PROPERTY ImplementsLifecycle
PROPERTY EventuallyTerminated
CHECK_DEADLOCK FALSE
