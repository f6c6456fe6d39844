\* Single- and half-precision tensors, up to three devices.
SPECIFICATION Spec
CONSTANTS
  MaxElements = 17
  VecSizes = {2, 4}
  MaxRanks = 3
  MaxWorkitem = 4
  Launches <- MCLaunches
INVARIANTS
  EveryElementOnce
  StoresStayInside
CHECK_DEADLOCK FALSE
