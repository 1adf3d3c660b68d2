SPECIFICATION Spec
CONSTANTS
    r1 = r1
    r2 = r2
    s1 = s1
    s2 = s2
    NoDevice = NoDevice
    Rollouts <- MC1Rollouts
    Singles <- MC1Singles
    Requests <- MC1Requests
    Devices <- MC1Devices
    Descriptions <- MC1Descriptions
    Selected <- MC1Selected
    Desired <- MC1Desired
    Family <- MC1Family
    StopOutcomes = {"RECOVERED", "AMBIGUOUS"}
    MaxEdits = 1
INVARIANTS
    ParentAccepted
    ParentTruth
    EvidenceBeforeExposure
PROPERTIES
    ImplementsChildren
\* Jobs end, and when all have, nothing happens any more.
CHECK_DEADLOCK FALSE
