SPECIFICATION FairSpec
CONSTANTS
  Orders = {o1, o2}
  Couriers = {c1}
  CourierIds = {c1, Synthetic}
  OwnFallback = OwnFallback
  NoCourier = NoCourier
  Inputs <- MCInputs
  DefaultTries = 1
  StormTries = 2
  Degrs <- MCDegrs
  Nobody = Nobody
  Synthetic = Synthetic
  MaxProcessed = 1
  MaxHistory = 0
  MaxCarried = 1
  HistoryCap = 1
  MaxFlips = 0
  MaxRestarts = 1
INVARIANTS
  TypeOK
  RightCourier
  PaidOnce
  CarrierChangesOnlyAfterFallback
PROPERTIES
  EveryOrderCloses
CHECK_DEADLOCK FALSE
