SPECIFICATION Spec
CONSTANTS
    Runs <- MCRuns
    Members <- MCMembers
    Recycled <- MCRecycled
    Tick = 60
    Delays = {0, 60}
    Slowest = 60
    Last = 1
    MaxFaults = 1
INVARIANTS
    CleanupResumable
\* Jobs end.
CHECK_DEADLOCK FALSE
