\* Three watches of two descriptors, each opened once.
SPECIFICATION Spec
CONSTANTS
    WatchBlocks = {w1, w2, w3}
    Fds = {f1, f2}
    Interests <- ReadWrite
    FdReuse = FALSE
    MaxDrift = 1
    NULL = NULL
CHECK_DEADLOCK FALSE
SYMMETRY Symmetry
INVARIANTS
    WatchesSound
