SPECIFICATION FairSpec
CONSTANTS
  s1 = s1
  s2 = s2
  p1 = p1
  p2 = p2
  q = q
  g = g
  ann = ann
  ben = ben
  cyd = cyd
  m1 = m1
  m2 = m2
  NoRoom = NoRoom
  NoAccount = NoAccount
  Tabs = {g, p1, p2}
  Accounts = {ann}
  Recipients = {ann}
  Rooms = {alpha}
  Messages = {m1}
  MayBe <- OwnerOf
  Author <- AuthorOfAll
  Covers = {TRUE}
  Senders <- AllSenders
  SenderKey <- QuotaKeys
  MaxItemsPerAccount = 9
  MaxBytesPerAccount = 9
  MaxItemBytes = 1
  MaxItemsPerSender = 9
  MaxAttempts = 2
  LeaseLimit = 9
  LeaseTime = 1
  Ttl = 2
  DeadRetention = 1
  LedgerTtl = 2
  MaxLedger = 9
  MaxAwayRooms = 2
  StoreFull = FALSE
  CrashTimes = {0}
  Deletable = {ann}
  MaxRows = 1
  MaxTime = 1
INVARIANTS
  LeasesAreHeld
PROPERTIES
  WaitingEnds
CHECK_DEADLOCK FALSE
