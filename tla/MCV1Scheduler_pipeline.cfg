SPECIFICATION Spec
CONSTANTS
  r1 = r1
  r2 = r2
  r3 = r3
  m1 = m1
  m2 = m2
  Modes <- ScarcePipeline
  Requests = {r1, r2, r3, m1, m2}
  Prompt <- Prompts
  MaxTokens <- Lengths
  Guided = {r2}
  NoHits = {r1}
  Images <- Inputs
  Tokens = {1, 2, 5, 6, 7}
  EOS = 0
  BlockSize = 2
  MaxModelLen = 6
  Preallocate = 1
INVARIANT CountsUnscheduled
CHECK_DEADLOCK FALSE
