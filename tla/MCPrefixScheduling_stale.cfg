CONSTANTS
  r1 = r1
  r2 = r2
  r3 = r3
  a = a
  b = b
  c = c
  d = d
  Requests = {r1, r2}
  Prompt <- ShortPrompts
  NumBlocks = 2
  Watermark = 0
  MaxNumSeqs = 1
  BlockSize = 2
  Modes <- WholeModes
  MaxExtra = 1
  None = None
SPECIFICATION SafeSpec
INVARIANTS
  CountedTokensAreCached
CHECK_DEADLOCK FALSE
