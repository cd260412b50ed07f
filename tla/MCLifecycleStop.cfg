SPECIFICATION FairProcessSpec
CONSTANTS
    f1 = f1
    f2 = f2
    bad = bad
    r1 = r1
    r2 = r2
    Nobody = Nobody
    File <- MCOneFile
    Valid <- MCOneFile
    Request <- MCOneRequest
    SweepBatch = 1
    MaxFlows = 1
    MaxDrift = 1
PROPERTY Stops
