CONSTANTS
  NumLocal = 2
  Remote = {m1}
  MaxChunks = 2
  MaxSent = 4
SPECIFICATION Spec
INVARIANTS
  TypeOK
  WriterAlone
PROPERTIES
  Implements
  EveryoneReceives
