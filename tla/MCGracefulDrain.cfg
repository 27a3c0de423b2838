SPECIFICATION FairSpec
CONSTANTS
  c1 = c1
  c2 = c2
  Conns = {c1, c2}
  MaxConnections = 2
  CriticalRequests = 1
INVARIANTS
  NoLostWakeup
  CompleteMeansDrained
PROPERTIES
  DrainEndsPromptly
  AdmissionRecovers
CHECK_DEADLOCK FALSE
