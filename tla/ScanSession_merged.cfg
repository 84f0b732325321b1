SPECIFICATION Spec
CONSTANTS
  Calls <- GrabCalls
  LinkFaults <- Lossy
  Revs = 2
  RevLen = 2
  BatchMax = 2
  ScanCap = 4
  IntervalCap = 3
  ClientCap = 3
INVARIANT SameRevolution
