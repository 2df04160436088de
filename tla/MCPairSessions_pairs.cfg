SPECIFICATION Spec
CONSTANTS
  Pages = {A, B}
  MaxDrops = 1
  MaxFaults = 1
  MaxSends = 1
  Straddle = FALSE
SYMMETRY Symmetry
INVARIANTS
  TypeOK
  QuietMeansSession
  RoomReadable
  FewHellos
  ClosedForAReason
