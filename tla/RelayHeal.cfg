SPECIFICATION FairSpec
CONSTANTS
  Regions = {r1, r2}
  NoRegion = NoRegion
  Settings <- BadSettings
  MaxQueue = 2
  MaxRestarts = 0
  MaxFaults = 0
PROPERTY ResetHeals
