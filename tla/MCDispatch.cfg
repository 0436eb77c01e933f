SPECIFICATION FairSpec
CONSTANTS
  Orders = {o1, o2}
  Couriers = {c1, c2}
  Degrs <- MCDegrs
  Nobody = Nobody
  Synthetic = Synthetic
  MaxProcessed = 2
  MaxHistory = 1
  MaxCarried = 1
  HistoryCap = 2
  MaxFlips = 2
  MaxRestarts = 1
INVARIANTS
  EachOrderOnceInOrder
  CourierServesOnce
PROPERTIES
  ImplementsRegionHealth
  OrdersAnswered
  ShedsHistory
  FlipPublished
CHECK_DEADLOCK FALSE
