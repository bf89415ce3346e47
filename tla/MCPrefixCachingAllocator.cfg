CONSTANTS
  BlockIds = {b1, b2, b3}
  Objects = {o1, o2, o3, o4}
  Hashes = {h1, h2}
  Partials = {p1, p2}
  None = None
SPECIFICATION Spec
SYMMETRY Symmetry
INVARIANTS
  TypeOK
  BlocksConserved
  CacheConsistent
  ContentPreserved
  ComputedIsCached
  NoAssertionFails
