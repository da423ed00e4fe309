\* Three deferred callbacks, any client calls at any point, under fairness.
SPECIFICATION FairSpec
CONSTANTS
    Deferreds = {d1, d2, d3}
CHECK_DEADLOCK FALSE
INVARIANTS
    ListsSound
    EnabledIsQueued
    WalkStaysOnList
    NeverSleepsOnWork
PROPERTY
    ServedOrFreed
