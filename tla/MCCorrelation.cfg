SPECIFICATION Spec
CONSTANTS
    None = None
    k1 = k1 k2 = k2 k3 = k3 w1 = w1 w2 = w2
    Document <- MCDocument
    Invocation <- MCInvocation
    Role <- MCRole
    SlotOf <- MCSlotOf
    Requires <- MCRequires
    Terminal <- MCTerminal
    Size <- MCSize
    Timeout = 3
    Settle = 2
    CloseWhenComplete = TRUE
    MaxEvents = 3
    MaxEventBytes = 0
    MaxFlowBytes = 0
    Key = {k1}
    Worker <- MCWorker
    MaxBatch = 1
    MaxEventId = 3
    MaxTime = 5
    Arrivals = 4
    Milli = 2
    SweepBatch = 1
    MaxOpenFlows = 0
    MaxDLQ = 1
    MaxOutboxRecords = 0
SYMMETRY Symmetry
INVARIANTS
    Preserved
    ExpiryIndexExact
    DeadlineExact
    ReasonHonest
