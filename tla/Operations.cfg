SPECIFICATION Spec
CONSTANTS
    MaxDrifts = 1
    Acceptors = {a1, a2, a3}
    Observations = {1, 2}
    MaxFaults = 2
    Adopters = {"first", "second"}
    DriftingKeys <- MCDriftingKeys
    MaxChanges = 2
    MaxLosses = 1
    EditedKeys <- MCEditedKeys
    MaxMishaps = 2
    MaxJobs = 3
    MaxReconciles = 2
    MaxOutages = 1
INVARIANTS
    RenderConverges
    ProtectedAsRead
    AssuranceSeparates
    OneHistory
    AdoptedAsRead
    ResolvedAsMigrated
    ObservedAsCollected
\* Each procedure ends.
CHECK_DEADLOCK FALSE
