SPECIFICATION FairSpec
CONSTANTS
  ann = ann
  ben = ben
  cyd = cyd
  f1 = f1
  f2 = f2
  f3 = f3
  here1 = here1
  here2 = here2
  Owner <- Owners
  AddressOf <- Addresses
  Pages = {ann, ben, cyd}
  Files = {f1}
  MaxPerPeer = 1
  MaxPerAddress = 2
  MaxTotal = 2
  Ttl = 1
  Chunks = 2
  MaxRounds = 1
  MaxIncoming = 2
  MaxIncomingOfOne = 1
  Idle = 1
  RepeatTime = 1
  MaxTime = 0
  MaxLost = 2
  MayClose = {ann, cyd}
INVARIANTS
  TypeOK
  WaitsForSomething
  AsksOnlyForLost
PROPERTIES
  SettledStays
  PendingSettles
CHECK_DEADLOCK FALSE
