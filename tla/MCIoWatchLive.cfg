\* Two watches of one descriptor, under fairness.
SPECIFICATION FairSpec
CONSTANTS
    WatchBlocks = {w1, w2}
    Fds = {f1}
    Interests <- ReadWrite
    FdReuse = FALSE
    MaxDrift = 1
    NULL = NULL
CHECK_DEADLOCK FALSE
PROPERTY
    WatchesServed
