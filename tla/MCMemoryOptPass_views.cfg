CONSTANTS
  Graphs <- ViewGraphs
  DeviceName = "cpu"
  SearchBound = 10
  MaxPasses = 1
  MaxRuns = 1
SPECIFICATION Spec
INVARIANT BuffersIntact
CHECK_DEADLOCK FALSE
