SPECIFICATION ProcessSpec
CONSTANTS
    f1 = f1
    f2 = f2
    bad = bad
    r1 = r1
    r2 = r2
    Nobody = Nobody
    File <- MCFile
    Valid <- MCValid
    Request <- MCOneRequest
    SweepBatch = 2
    MaxFlows = 2
    MaxDrift = 1
INVARIANT GaugeExact
INVARIANT OnlyLateRequestsTouchClosed
INVARIANT NoMixedConfiguration
INVARIANT SignalNotLost
