SPECIFICATION FairSpec
CONSTANTS
    Runs <- MCRuns
    Members <- MCMembers
    Recycled <- MCRecycled
    Tick = 60
    Delays = {0, 60}
    Slowest = 60
    Last = 1
    MaxFaults = 2
INVARIANTS
    TypeOK
    OutcomeTruth
    RecycledTwice
    SingleLab
    ReadinessWindow
PROPERTIES
    RetireOnlyWhenGone
    OnlyCommandsHang
\* Jobs end.
CHECK_DEADLOCK FALSE
