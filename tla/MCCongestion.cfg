SPECIFICATION CongestionSpec
CONSTANTS
    InitialMaxInflight = 4
    MinMaxInflight = 2
    MaxMaxInflight = 7
    CongestionWindow = 10
    FailuresToHalve = 3
INVARIANTS
    CapInRange
PROPERTIES
    HalvedOnlyByFailureRun
    RecoversToCeiling
