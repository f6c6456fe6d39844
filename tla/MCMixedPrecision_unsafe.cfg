\* A denylist op before, and an infer op behind, a tensor list that leaves the graph.
SPECIFICATION Spec
CONSTANTS
  Graphs <- BehindLists
INVARIANTS
  DenyPathsStayFloat32
CHECK_DEADLOCK FALSE
