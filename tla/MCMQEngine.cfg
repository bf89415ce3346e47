CONSTANTS
  r1 = r1
  r2 = r2
  Requests = {r1, r2}
  Workloads <- MCWorkloads
  MaxTokens = 2
  None = None
SPECIFICATION Spec
INVARIANTS
  TypeOK
  InOrder
  AbandonedLeaves
PROPERTIES
  StreamsEnd
CHECK_DEADLOCK FALSE
