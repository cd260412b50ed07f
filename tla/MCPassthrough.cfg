SPECIFICATION FairBufferSpec
CONSTANTS
    Settings <- MCSettings
    MaxAccept = 3
INVARIANTS
    Accounted
    BatchIsHead
    DuplicateOnlyUnacked
    NoLostWakeup
PROPERTY Flushed
