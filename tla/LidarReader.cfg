SPECIFICATION FairSpec
CONSTANTS
  Bauds <- DefaultBauds
  DeviceBaud = 256000
  EachReads = 3
  Scans <- MCScans
  Densities <- MCDensities
INVARIANTS HealthCheckDue PortOwned NoTornReadings StopsClean
PROPERTIES DrawsTheScan Recovers ShutdownCompletes
