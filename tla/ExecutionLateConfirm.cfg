SPECIFICATION Spec
CONSTANTS
    None = None
    d = d
    p = p
    q = q
    Descriptions <- MCDescriptions
    Desired = d
    NoPending = NoPending
    ConfirmInTime = FALSE
    MaxEdits = 0
INVARIANT
    KnownSuccessPersists
