SPECIFICATION Spec
CONSTANTS
  Bauds <- DefaultBauds
  DeviceBaud = 256000
  EachReads = 3
  Scans <- Quarters
  Densities <- MCDensities
INVARIANT FullCircle
