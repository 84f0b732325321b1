SPECIFICATION FairSpec
CONSTANTS
  Threads = {1, 2, 3}
  Queues = {"a", "b"}
  Limit <- Limits
  Pairs <- OneWay
  MaxOut = 2
  MaxCalls = 7
INVARIANTS NoLostWakeup InOrder IInv
PROPERTIES HeldContents PopServed
