SPECIFICATION Spec
CONSTANTS
  Graphs <- MCGraphs
INVARIANTS
  TypeOK
  TypesAgree
  ConversionSucceeds
  DangerousStaysFloat32
  ListsOneType
  LoopsWithoutCasts
  ColoursDisjoint
CHECK_DEADLOCK FALSE
