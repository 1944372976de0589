CONSTANTS
    DataEnd = 5
    MaxDup = 2
    Writes = {1, 4}
    Seg = 2
    WrapAt = 1000000
    InitCwnd = 3
    InitSsThresh = 100
    Scale = 4
    Gain = 2
    Rtts = {2}
    InitMinRtt = 2
    InitTdcv = {1, 3}
    InitAckedRtt = {0, 7}
SPECIFICATION Spec
PROPERTY CutNeedsSignal
CHECK_DEADLOCK FALSE
