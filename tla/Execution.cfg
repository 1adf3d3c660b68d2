SPECIFICATION FairSpec
CONSTANTS
    None = None
    d = d
    p = p
    q = q
    Descriptions <- MCDescriptions
    Desired = d
    NoPending = NoPending
    ConfirmInTime = TRUE
    MaxEdits = 2
INVARIANTS
    TypeOK
    RecordNeverLost
    WriteTruth
    OutcomeTruth
    SecondWriteJustified
PROPERTIES
    ImplementsChild
    UnconfirmedIsRestored
