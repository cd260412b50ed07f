SPECIFICATION ProjectionSpec
CONSTANTS
    Document <- MCDocument
    Invocation <- MCInvocation
    Role <- MCRole
    SlotOf <- MCSlotOf
    Requires <- MCRequires
    Terminal = {}
    Size <- MCSize
    Timeout = 5
    Settle = 0
    CloseWhenComplete = FALSE
    MaxEvents = 0
    MaxEventBytes = 0
    MaxFlowBytes = 0
    None = None
    Rules <- MCRules
    Stamp <- MCStamp
    Promotion <- MCPromotion
    ValueOf <- MCValueOf
    Coerces <- MCCoerces
    TimestampSource = "first_event"
    MaxTime = 2
    MaxArrivals = 5
CHECK_DEADLOCK FALSE
INVARIANTS
    FlowTimesExact
    ShownOnce
    RoleByIdentity
