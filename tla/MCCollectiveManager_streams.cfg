SPECIFICATION FairSpec
CONSTANTS
  Ops <- MCOps
  Devices = {1, 2, 3}
  Cases <- MCCases
  MAX_RANK_SIZE = 16
INVARIANTS
  TypeOK
  BuffersIdleAfterCallback
  AnsweredAlike
PROPERTIES
  ResultVisible
  EveryoneAnswered
CHECK_DEADLOCK FALSE
