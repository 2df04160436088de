SPECIFICATION FairSpec
CONSTANTS
  Accounts = {acc}
  Rooms = {alpha, beta}
  Messages = {m1, m2}
  Senders = {bob}
  SenderKey <- OwnKeys
  Deadlines = {0}
  Sizes = {1, 2}
  MaxItemsPerAccount = 5
  MaxBytesPerAccount = 2
  MaxItemBytes = 2
  MaxItemsPerSender = 1
  MaxAttempts = 2
  LeaseLimit = 1
  LeaseTime = 1
  Ttl = 2
  DeadRetention = 1
  MaxRows = 2
  MaxTime = 3
INVARIANTS
  Deduplicated
  Ordered
  RowLife
PROPERTIES
  HandedInOrder
  EverythingSettles
  KeepsPromise
  NothingVanishes
  OnlyReviveOverfills
CHECK_DEADLOCK FALSE
