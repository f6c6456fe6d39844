CONSTANTS
  Graphs <- MCGraphs
  DeviceName = "cpu"
  SearchBound = 2
  MaxPasses = 2
  MaxRuns = 2
SPECIFICATION Spec
INVARIANTS TypeOK BuffersIntact FiltersStay PackedUnderstood
CHECK_DEADLOCK FALSE
