SPECIFICATION Spec
CONSTANTS
  a1 = a1
  a2 = a2
  b1 = b1
  phone = phone
  laptop = laptop
  t1 = t1
  ann = ann
  NoRoom = NoRoom
  NoToken = NoToken
  NoAccount = NoAccount
  NoId = NoId
  Conns = {a1, a2, b1}
  Rooms = {alpha}
  Accounts = {}
  Tokens = {}
  Device <- DeviceOfConns
  AccountOf <- OwnedByAnn
  Holds <- PhoneHasOne
  MaxMembers = 0
  HeldPerRoom = 2
  HeldTotal = 2
PROPERTIES
  ResumeTakesThePlace
CHECK_DEADLOCK FALSE
