\* Three timers, two microseconds to a millisecond, under fairness.
SPECIFICATION FairSpec
CONSTANTS
    TimerBlocks = {t1, t2, t3}
    Intervals = {0, 1}
    UsecsPerMsec = 2
    UintSize = 16
    MaxLag = 1
    NULL = NULL
CHECK_DEADLOCK FALSE
INVARIANTS
    TimersSound
    
PROPERTIES
    FullSleepExpires
    TimersServed
