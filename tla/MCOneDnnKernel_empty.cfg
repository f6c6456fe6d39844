SPECIFICATION Spec
CONSTANTS
    Threads = {t1, t2}
    Nodes <- MCUncachedNodes
    Shapes <- MCValidOrEmpty
    MaxCalls = 3
CHECK_DEADLOCK FALSE
INVARIANT SkipsOnlyMeaningless
