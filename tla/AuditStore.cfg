SPECIFICATION Spec
CONSTANTS
    j1 = j1
    j2 = j2
    j3 = j3
    Jobs <- MCJobs
    Names <- MCNames
    Inputs <- MCInputs
    Bytes <- MCBytes
    Envelope <- MCEnvelope
    Dir <- MCDir
    Fresh = {}
    Absent = Absent
    Torn = Torn
    MaxFaults = 1
INVARIANTS
    TypeOK
    ReceiptDurable
    OnePublisher
    VisibleRecordReadable
\* Publishers end, and the power fails no more than MaxFaults times.
CHECK_DEADLOCK FALSE
