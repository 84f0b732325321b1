SPECIFICATION FairSpec
CONSTANTS
  MaxPending = 2
  MakeNewView = TRUE
  DensityInit = 6
  DensityMin = 6
  DensityMax = 9
  Word = 16
INVARIANTS TypeOK WindowExclusive KeysFollow
PROPERTY CloseEnds
CHECK_DEADLOCK FALSE
