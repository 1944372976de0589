CONSTANTS
    DataEnd = 8
    Sacks = {TRUE}
    Seg = 2
    WrapAt = 1000000
    InitCwnd = 3
    InitSsThresh = 100
    ReTxThresh = 3
    DataRetries = 6
    MaxLoss = 1
    MaxEce = 1
    MaxEarly = 0
SPECIFICATION Spec
PROPERTY DisorderFromOne
CHECK_DEADLOCK FALSE
