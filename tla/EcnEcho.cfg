SPECIFICATION FairSpec
CONSTANTS
    LastSeg = 5
    DelAckMax = 3
    Reorder = 3
    Behind = 3
INVARIANTS EchoExact MarkEchoedAtOnce AckHonest EceOnlyOnCe
PROPERTIES NextNeverBack AckedInTheEnd
