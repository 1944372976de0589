SPECIFICATION Spec
CONSTANTS
    LastSeg = 4
    DelAckMax = 2
    Reorder = 0
    Behind = 0
INVARIANT MarkEchoed
