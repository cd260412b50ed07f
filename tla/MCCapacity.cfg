SPECIFICATION FairSpec
CONSTANTS
    None = None
    k1 = k1 k2 = k2 k3 = k3 w1 = w1 w2 = w2
    Document <- LineDocument
    Invocation <- MCInvocation
    Role <- MCRole
    SlotOf <- MCSlotOf
    Requires <- MCRequires
    Terminal <- MCTerminal
    Size <- MCSize
    Timeout = 1
    Settle = 0
    CloseWhenComplete = TRUE
    MaxEvents = 2
    MaxEventBytes = 0
    MaxFlowBytes = 0
    Key = {k1, k2, k3}
    Worker <- MCWorker
    MaxBatch = 2
    MaxEventId = 3
    MaxTime = 4
    Arrivals = 3
    Milli = 1
    SweepBatch = 1
    MaxOpenFlows = 1
    MaxDLQ = 1
    MaxOutboxRecords = 1
VIEW Essence
INVARIANT CapacityOvershoot
PROPERTIES
    StartupSweepsAll
    FlowsEnd
