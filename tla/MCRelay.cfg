SPECIFICATION FairSpec
CONSTANTS
  Regions = {r1, r2}
  NoRegion = NoRegion
  Settings <- UiSettings
  MaxQueue = 2
  MaxRestarts = 1
  MaxFaults = 1
INVARIANTS
  TypeOK
  Remembered
PROPERTIES
  ResetHeals
  TakesEffect
