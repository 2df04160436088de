SPECIFICATION Spec
CONSTANTS
  Peers = {p, q, r}
  Messages = {m1, m2}
  Private = {m1}
  Flushes = {f1, f2}
  MaxMessages = 2
  MaxAttempts = 2
  MaxDrops = 1
SYMMETRY Symmetry
CONSTRAINT Small
INVARIANTS
  TypeOK
  OnceWhileAlone
  DraftsWait
PROPERTIES
  KeptUntilTaken
CHECK_DEADLOCK FALSE
