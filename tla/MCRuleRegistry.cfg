SPECIFICATION FairSpec
CONSTANTS
    Ref     <- MCRef
    RuleId  <- MCRuleId
    RuleOf  <- MCRuleOf
    Enabled <- MCEnabled
    Config  <- MCConfig
    CorrKey <- MCCorrKey
    Worker  <- MCWorker
    Batch = 2
    None = None
    w1 = w1
    w2 = w2
INVARIANTS
    RefCountExact
    PinnedResolvable
    RuleUnavailableOnlyRecovered
PROPERTY SupersededReclaimed
