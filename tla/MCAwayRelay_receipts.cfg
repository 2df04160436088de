SPECIFICATION Spec
CONSTANTS
  s1 = s1
  s2 = s2
  p1 = p1
  p2 = p2
  q = q
  g = g
  ann = ann
  ben = ben
  cyd = cyd
  m1 = m1
  m2 = m2
  NoRoom = NoRoom
  NoAccount = NoAccount
  Tabs = {s1, p1}
  Accounts = {ann, ben, cyd}
  Recipients = {ann, ben, cyd}
  Rooms = {alpha}
  Messages = {m1}
  MayBe <- SharedTab
  Author <- AuthorOfAll
  Covers = {FALSE}
  Senders <- AllSenders
  SenderKey <- QuotaKeys
  MaxItemsPerAccount = 9
  MaxBytesPerAccount = 9
  MaxItemBytes = 1
  MaxItemsPerSender = 9
  MaxAttempts = 1
  LeaseLimit = 9
  LeaseTime = 1
  Ttl = 2
  DeadRetention = 1
  LedgerTtl = 2
  MaxLedger = 9
  MaxAwayRooms = 2
  StoreFull = FALSE
  CrashTimes = {}
  Deletable = {ben}
  MaxRows = 1
  MaxTime = 0
SYMMETRY Twins
INVARIANTS
  NothingForTheDeleted
  ReceiptsAreGenuine
PROPERTIES
  AckIsReported
CHECK_DEADLOCK FALSE
