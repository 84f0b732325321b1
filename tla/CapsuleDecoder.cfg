SPECIFICATION FairSpec
CONSTANTS
  Payload = 2
  Looks <- SomeLooks
  Circle = 7
  Steps = {1, 2}
  Cabins = 2
  MaxDrops = 1
  MaxTimeouts = 1
  MaxScans = 2
INVARIANTS Consecutive OneStartPerTurn StartComes
PROPERTY Recovers
