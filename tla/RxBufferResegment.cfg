CONSTANTS
    MaxBuffer = 6
    StreamEnd = 6
    Segments <- AllSegments
    RecvSizes = {6}
SPECIFICATION Spec
INVARIANTS SackDisjoint
CHECK_DEADLOCK FALSE
