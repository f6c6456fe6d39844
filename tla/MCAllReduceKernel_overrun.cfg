\* Half-precision tensors on devices that run at most two work items at once.
SPECIFICATION Spec
CONSTANTS
  MaxElements = 17
  VecSizes = {4}
  MaxRanks = 2
  MaxWorkitem = 2
  Launches <- MCLaunches
INVARIANTS
  TailStoredInPart
CHECK_DEADLOCK FALSE
