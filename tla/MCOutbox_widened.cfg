SPECIFICATION Spec
CONSTANTS
  Peers = {p, q}
  Messages = {m1, m2}
  Private = {m1}
  Flushes = {f1, f2}
  MaxMessages = 2
  MaxAttempts = 2
  MaxDrops = 0
SYMMETRY Symmetry
INVARIANTS
  PrivateStaysPrivate
CHECK_DEADLOCK FALSE
