SPECIFICATION FairSpec
CONSTANTS
  i1 = i1
  i2 = i2
  Instances = {i1, i2}
  Holder <- SharedIdentity
  TTL = 2
  Retention = 2
  MaxAcquisitions = 2
INVARIANTS
  NoStaleCommit
PROPERTIES
  NoResurrection
  SupersededTasksAreHarmless
  AbandonedClaimExpires
  LossIsNoticed
