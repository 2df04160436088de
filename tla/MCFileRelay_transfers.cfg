SPECIFICATION Spec
CONSTANTS
  ann = ann
  ben = ben
  cyd = cyd
  f1 = f1
  f2 = f2
  f3 = f3
  here1 = here1
  here2 = here2
  Owner <- Owners
  AddressOf <- Addresses
  Pages = {ann, ben}
  Files = {f1, f2, f3}
  MaxPerPeer = 2
  MaxPerAddress = 2
  MaxTotal = 3
  Ttl = 0
  Chunks = 1
  MaxRounds = 1
  MaxIncoming = 2
  MaxIncomingOfOne = 1
  Idle = 1
  RepeatTime = 1
  MaxTime = 1
  MaxLost = 0
  MayClose = {ann}
INVARIANTS
  TableSound
CHECK_DEADLOCK FALSE
