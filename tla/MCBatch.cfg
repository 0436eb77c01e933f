SPECIFICATION BatchSpec
CONSTANTS
  Batches = {b1, b2}
  Settings <- UiSettings
  Null = Null
  NormalMax = 2
  NormalSizes <- SomeSizes
  Score <- Scores
INVARIANTS BatchTypeOK ResultIsRight
PROPERTIES EveryBatchCloses StormDrains
