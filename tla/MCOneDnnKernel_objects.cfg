SPECIFICATION Spec
CONSTANTS
    Threads = {t1, t2}
    Nodes <- MCNodes
    Shapes <- MCShapes
    MaxCalls = 4
SYMMETRY MCSymmetry
CHECK_DEADLOCK FALSE
INVARIANTS TypeOK ExecutesThisCall CachedBufferStays WritesOwnOutput
