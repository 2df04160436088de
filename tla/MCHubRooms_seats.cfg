SPECIFICATION Spec
CONSTANTS
  a1 = a1
  a2 = a2
  b1 = b1
  phone = phone
  laptop = laptop
  t1 = t1
  ann = ann
  NoRoom = NoRoom
  NoToken = NoToken
  NoAccount = NoAccount
  NoId = NoId
  Conns = {a1, a2, b1}
  Rooms = {alpha, beta, gamma}
  Accounts = {ann}
  Tokens = {t1}
  Device <- DeviceOfConns
  AccountOf <- OwnedByAnn
  Holds <- PhoneHasOne
  MaxMembers = 2
  HeldPerRoom = 1
  HeldTotal = 2
SYMMETRY Twins
INVARIANTS
  IndexSound
  SessionsHonoured
  HeldWithinLimits
PROPERTIES
  SeatsAreKept
  HeldForTheOwner
CHECK_DEADLOCK FALSE
