SPECIFICATION FairSpec
CONSTANTS
    r1 = r1
    r2 = r2
    s1 = s1
    s2 = s2
    NoDevice = NoDevice
    Rollouts <- MC2Rollouts
    Singles <- MC2Singles
    Requests <- MC2Requests
    Devices <- MC2Devices
    Descriptions <- MC2Descriptions
    Selected <- MC2Selected
    Desired <- MC2Desired
    Family <- MC2Family
    StopOutcomes = {}
    MaxEdits = 0
INVARIANTS
    TypeOK
    DisjointPopulations
    NeverAllRefused
PROPERTIES
    NoBlindOverwrite
    OnlyCommandsReserve
\* Jobs end, and when all have, nothing happens any more.
CHECK_DEADLOCK FALSE
