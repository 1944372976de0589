CONSTANTS
    Timers = {t1, t2, t3, t4}
    MaxTime = 2
    MaxClicks = 3
    MaxPauses = 2
    MaxNesting = 2
    None = None
SPECIFICATION FairSpec
INVARIANTS NeverAhead LockGuards NoMessageLost
PROPERTIES QuitEnds KeepsGoing PausedEndsTimers
CHECK_DEADLOCK FALSE
