SPECIFICATION Spec
CONSTANTS
  Insts = {a, b}
  Ids = {p, q}
  NoId = NoId
  NoGen = NoGen
  MaxJoins = 2
  MaxEvents = 1
  MaxQueue = 2
SYMMETRY Symmetry
INVARIANTS
  TypeOK
  GhostsAreSeen
  KnownIsTrue
CHECK_DEADLOCK FALSE
