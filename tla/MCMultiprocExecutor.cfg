CONSTANTS
  NumWorkers = 3
  Capacity = 1
  Kinds = {"execute_model", "utility", "check_health"}
  Failing = {"execute_model", "utility"}
  MaxCalls = 4
SPECIFICATION Spec
INVARIANTS
  TypeOK
  Lockstep
  AnswersInOrder
PROPERTIES
  CallsEnd
CHECK_DEADLOCK FALSE
