SPECIFICATION FairSpec
CONSTANTS
  a = a
  b = b
  c = c
  d = d
  e = e
  Out <- Few
  Purse = {"purse"}
  Owner <- FewOwners
  Amount <- FewAmounts
  ValidHeight <- FewHeights
  DesireUtxoCount = 1
  Modulus = 16
  MaxAmount = 3
  MaxHeight = 1
  MaxTime = 2
  MaxIndex = 2
INVARIANTS
  ReservedExact
PROPERTIES
  
  ReservationEnds
CHECK_DEADLOCK FALSE
