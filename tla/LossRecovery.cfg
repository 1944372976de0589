CONSTANTS
    DataEnd = 5
    Sacks = {TRUE, FALSE}
    Seg = 2
    WrapAt = 16
    InitCwnd = 4
    InitSsThresh = 100
    ReTxThresh = 2
    DataRetries = 1
    MaxLoss = 3
    MaxEce = 1
    MaxEarly = 1
SPECIFICATION FairSpec
INVARIANTS TypeOK Scoreboard TimerArmed GivesUpLate
PROPERTIES OneRecoveryPerWindow TimeoutEmptiesFlight Completes
CHECK_DEADLOCK FALSE
