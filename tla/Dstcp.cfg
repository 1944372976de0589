CONSTANTS
    DataEnd = 5
    MaxDup = 2
    Writes = {1, 4}
    Seg = 2
    WrapAt = 1000000
    InitCwnd = 3
    InitSsThresh = 100
    Scale = 4
    Gain = 2
    Rtts = {1, 3}
    InitMinRtt = 2
    InitTdcv = {1}
    InitAckedRtt = {0}
SPECIFICATION Spec
INVARIANTS TypeOK Fractions EchoCounted NoStall PrrFlightPositive ThresholdHeld
PROPERTIES OneCutPerWindow CutNeedsSignal
CHECK_DEADLOCK FALSE
