SPECIFICATION Spec
CONSTANTS
  w1 = w1
  w2 = w2
  c1 = c1
  Workers <- MCWorkers
  Callers <- MCCallers
  CPUs = {2, 4}
  Asked <- MCAsked
  MaxN = 3
  MaxNestedN = 2
  MaxDepth = 2
  QueueSize = 1
INVARIANTS
  TypeOK
  EveryIterationOnce
  CallOutlivesTasks
PROPERTIES
  CallsReturn
