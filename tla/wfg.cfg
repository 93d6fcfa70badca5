SPECIFICATION Spec
CONSTANTS
  NetSize = 3
  Depth = 4
  MaxWrites = 3
  Counts <- MCCounts
INVARIANT InStep
PROPERTY DoneMeansArrived
