SPECIFICATION Spec
CONSTANTS
  Calls <- GrabCalls
  LinkFaults <- Silent
  Revs = 2
  RevLen = 2
  BatchMax = 2
  ScanCap = 4
  IntervalCap = 3
  ClientCap = 2
INVARIANT TimeoutElapsed
