SPECIFICATION Spec
CONSTANTS
  Waiters = {"client"}
  MaxCalls <- MCMaxCalls
  MaxNodes <- MCMaxNodes
  MaxFaults <- MCMaxFaults
  FirstFault <- MCFirstFault
  MaxBacklog <- MCMaxBacklog
  PortNumber <- MCPortNumber
INVARIANTS
  ExchangeSound
  ConnectedMeansOpen
  ReleasedOnce
  NoSleeperMissed
PROPERTIES
  ImplementsByteChannel
  CallsEnd
CHECK_DEADLOCK FALSE
