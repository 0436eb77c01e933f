SPECIFICATION FairSpec
CONSTANTS
  None = None
  Names <- MCNames
  Keys <- MCKeys
  Values <- MCValues
  Defaults <- MCDefaults
  Commands <- MCCommands
  MaxSignals = 3
  MaxHistory = 9
  MaxBurst = 3
INVARIANTS
  TypeOK
  HistoryBounded
PROPERTIES
  ParamsKept
  ImplementsStore
  HandsOver
