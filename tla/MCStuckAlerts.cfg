SPECIFICATION FairAlertsSpec
CONSTANTS
    None = None
    a1 = a1
    Letter <- MCLetter
    Reason <- MCReason
    Admin = {a1}
    MaxLetters = 2
    MaxReject = 3
INVARIANTS
    NeverUnderReported
    DepthRecent
PROPERTY ClearsSerial
