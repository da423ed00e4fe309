\* A master without slaves is never freed.
SPECIFICATION Spec
CONSTANTS
    WatchBlocks = {w1, w2}
    Fds = {f1}
    Interests <- ReadWrite
    FdReuse = FALSE
    MaxDrift = 1
    NULL = NULL
CHECK_DEADLOCK FALSE
INVARIANT
    NothingIsLost
