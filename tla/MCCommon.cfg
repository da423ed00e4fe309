CONSTANTS
    Loops <- MCLoops
    Pollable = {"f", "g"}
    FdLists <- MCFdLists
    Timeouts <- MCTimeouts
    OwnTimeouts = {0, 2}
    INT_MAX = 9
    MaxRounds = 2
    MaxCalls = 3
    MaxTime = 4
    l1 = l1
    l2 = l2
    h1 = h1
    h2 = h2
    h3 = h3
    Handlers = {h1, h2, h3}
    Signals = {"SIGHUP", "SIGTERM"}
    MaxRaised = 3
    Signum <- MCSignum
    Buckets = {"a", "b"}
    Bucket <- MCBucket
    MaxMade = 4
    Sizes = {1, 3}
    MaxBlocks = 4
    MaskBits = 2
    EmptyWords = 2
    PoolSizes <- MCPoolSizes
    Wrap = 16
    MaxChunks = 2
    MaxDepth = 3
SPECIFICATION Spec
SYMMETRY Symmetry
INVARIANTS
    SubloopsAreServed
    SuperloopPumps
    SignalsAreHandled
    
    MemoryIsSound
\* The rounds and the calls of clients are bounded, and a loop that was lost stops.
CHECK_DEADLOCK FALSE
