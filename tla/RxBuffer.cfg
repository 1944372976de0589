CONSTANTS
    MaxBuffer = 6
    StreamEnd = 7
    Segments <- AllSegments
    RecvSizes = {1, 3}
SPECIFICATION FairSpec
INVARIANTS AckedIsKept Accounting SackHonest LoopsAgree
PROPERTIES ImplementsStream StreamCompletes WindowNeverShrinks SackNotWithdrawn
CHECK_DEADLOCK FALSE
