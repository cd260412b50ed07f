SPECIFICATION Spec
CONSTANTS
    None = None
    k1 = k1 k2 = k2 k3 = k3 w1 = w1 w2 = w2
    Document <- BatchDocument
    Invocation <- MCInvocation
    Role <- MCRole
    SlotOf <- MCSlotOf
    Requires <- MCRequires
    Terminal <- MCTerminal
    Size <- MCSize
    Timeout = 3
    Settle = 2
    CloseWhenComplete = TRUE
    MaxEvents = 3
    MaxEventBytes = 0
    MaxFlowBytes = 0
    Key = {k1}
    Worker = {w1}
    MaxBatch = 2
    MaxEventId = 2
    MaxTime = 5
    Arrivals = 5
    Milli = 2
    SweepBatch = 1
    MaxOpenFlows = 0
    MaxDLQ = 1
    MaxOutboxRecords = 0
PROPERTY SecondFlowKept
