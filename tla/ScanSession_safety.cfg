SPECIFICATION Spec
CONSTANTS
  Calls <- SessionCalls
  LinkFaults <- Faulty
  Revs = 2
  RevLen = 2
  BatchMax = 2
  ScanCap = 4
  IntervalCap = 3
  ClientCap = 2
INVARIANTS OneReader ThreadOwned NoLostWakeup PublishedScan IInv
PROPERTY ImplementsMailbox
