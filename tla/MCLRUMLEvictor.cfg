CONSTANTS
  BlockIds = {1, 2}
  h1 = h1
  h2 = h2
  h3 = h3
  Hashes = {h1, h2, h3}
  Conversations = {1}
  Workloads <- MCWorkloads
  FinalChoices = {"lru", "rrip", "fifo", "pdp"}
  Scores = {0, 1}
  Distances = {1, 2}
  MaxTime = 3
  MaxEpoch = 2
  MaxOutdated = 2
  None = None
SPECIFICATION Spec
INVARIANTS
  TypeOK
  TablesAgree
  AllRebound
  ReportsOwnHash
PROPERTIES
  FreshStartsLong
  VictimByPolicy
  EvictReturns
CHECK_DEADLOCK FALSE
