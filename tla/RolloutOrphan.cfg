SPECIFICATION Spec
CONSTANTS
    r1 = r1
    r2 = r2
    s1 = s1
    s2 = s2
    NoDevice = NoDevice
    Rollouts <- MC3Rollouts
    Singles <- MC3Singles
    Requests <- MC3Requests
    Devices <- MC3Devices
    Descriptions <- MC3Descriptions
    Selected <- MC3Selected
    Desired <- MC3Desired
    Family <- MC3Family
    StopOutcomes = {}
    MaxEdits = 0
PROPERTIES
    NeverBlind
\* Jobs end, and when all have, nothing happens any more.
CHECK_DEADLOCK FALSE
