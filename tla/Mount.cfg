SPECIFICATION MountSpec
CONSTANTS
  MaxRuns = 3
  MaxFaults = 2
INVARIANTS Inv CleansUp
