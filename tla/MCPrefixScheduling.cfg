CONSTANTS
  r1 = r1
  r2 = r2
  r3 = r3
  a = a
  b = b
  c = c
  d = d
  Requests = {r1, r2, r3}
  Prompt <- SharedPrompts
  NumBlocks = 4
  Watermark = 0
  MaxNumSeqs = 2
  BlockSize = 2
  Modes <- BothModes
  MaxExtra = 2
  None = None
SPECIFICATION Spec
INVARIANTS
  TypeOK
  NoAllocationFailure
  WithinDevice
  PinnedUntilRun
PROPERTIES
  EveryRequestRuns
CHECK_DEADLOCK FALSE
