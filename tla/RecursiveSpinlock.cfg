SPECIFICATION FairSpec
CONSTANTS
  Threads = {t1, t2, t3}
  NoThread = NoThread
  MaxDepth = 2
INVARIANTS UnlockAsserts IInv
PROPERTIES ImplementsLock SomebodyGetsIt
