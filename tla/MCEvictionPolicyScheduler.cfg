CONSTANTS
  Hashes = {1, 2, 3}
  Capacity = 2
  ShadowPolicies <- MCShadowPolicies
  Warmup = 11
  Gaps = {1, 6}
  ObserveStride = 2
  ModelSizeB = 7
  SmallThreshold = 1
  LargeThreshold = 0
  ThresholdUnit = 4
  InitialPd = 2
  RecomputeInterval = 2
  MaxDistance = 3
  BucketSize = 1
  EvictionDistance = 1
  MaxResets = 1
SPECIFICATION Spec
INVARIANTS
  TypeOK
  SameSample
  ShadowIsLRU
  DecisionJustified
CHECK_DEADLOCK FALSE
