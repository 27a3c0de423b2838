SPECIFICATION FairSpec
CONSTANTS
  t1 = t1
  t2 = t2
  Threads = {t1, t2}
  Kinds <- BothKinds
  FailureThreshold = 2
  SuccessThreshold = 2
  HalfOpenMax = 0
  Timeout = 1
  TripOnConnectionErrors = FALSE
  MaxGen = 3
INVARIANTS
  EverySlotHasAnOwner
PROPERTIES
  DeferredOutcomeKnowsItsCycle
  ImplementsBreakerWord
  
