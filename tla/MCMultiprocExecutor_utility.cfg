CONSTANTS
  NumWorkers = 2
  Capacity = 2
  Kinds = {"execute_model", "utility"}
  Failing = {"utility"}
  MaxCalls = 3
SPECIFICATION SafeSpec
INVARIANTS
  AnswersMatch
CHECK_DEADLOCK FALSE
