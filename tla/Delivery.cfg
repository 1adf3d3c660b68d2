SPECIFICATION Spec
CONSTANTS
    None = None
    single = single
    rollout = rollout
    Singles <- MCSingles
    Rollouts <- MCRollouts
    Versions = {1, 2}
    MaxFaults = 2
INVARIANTS
    TypeOK
    ExecutedOnce
    ReviewedIsExecuted
    WritersExclusive
    PassedIsRecorded
    NoWriteIsTrue
CHECK_DEADLOCK FALSE
