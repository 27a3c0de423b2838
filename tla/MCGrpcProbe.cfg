SPECIFICATION RpcFairSpec
INVARIANTS
  SettledExactlyOnce
  OnlyTimelyUploadsHeal
  FailureIsNotMasked
PROPERTY SlotComesBack
CHECK_DEADLOCK FALSE
