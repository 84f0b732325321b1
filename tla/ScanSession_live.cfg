SPECIFICATION FairSpec
CONSTANTS
  Calls <- AllCalls
  LinkFaults <- Silent
  Revs = 2
  RevLen = 2
  BatchMax = 2
  ScanCap = 3
  IntervalCap = 3
  ClientCap = 1
INVARIANT CompleteRevolution
PROPERTIES IntervalDelivered CallReturns GrabDelivers
