SPECIFICATION ReserveSpec
CONSTANTS
  a = a
  b = b
  c = c
  d = d
  e = e
  Out <- More
  Purse = {"purse"}
  Owner <- MoreOwners
  Amount <- MoreAmounts
  ValidHeight <- MoreHeights
  DesireUtxoCount = 3
  Modulus = 13
  MaxAmount = 12
  MaxHeight = 0
  MaxTime = 1
  MaxIndex = 1
INVARIANTS
  ReservationPays
  DesiredCount
  RefusalJust
CHECK_DEADLOCK FALSE
