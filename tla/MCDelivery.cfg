SPECIFICATION FairSpec
CONSTANTS
    Doc <- MCDoc
    Batch = 2
    MaxRetries = 1
    MaxDLQ = 1
    MaxReplay = 1
    Watched = 2
    MaxCrash = 1
INVARIANTS
    Conserved
    InFlightStable
    AttemptsBounded
PROPERTIES
    CaptureFirst
    RefinesLedger
    OutboxDrains
