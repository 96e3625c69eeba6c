SPECIFICATION Spec
CONSTANTS
    o1 = o1
    o2 = o2
    a1 = a1
    a2 = a2
    r1 = r1
    r2 = r2
    r3 = r3
    f1 = f1
    f2 = f2
    Operators <- TwoOperators
    Attempts <- TwoAttempts
    Requests <- ThreeRequests
    Budgets <- AllBudgets
    TokenTtl = 2
    Leeway = 1
    Grace = 1
    MaxLive = 2
    FailureLimit = 1
    FailureBlock = 2
    FallbackLimit = 1
    MaxSecrets = 3
    Burst = 1
    QuotaLimit = 2
    MaxConcurrency = 1
    SlotTtl = 2
    Flushers <- TwoFlushers
    UsageTtl = 2
    Period = 2
    Routes = {"symbols", "bars", "actions", "financials", "holders"}
    Values = {1, 2}
    Caps = {1, 2}
    Limits = {0, 2}
    DefaultSize = 2
    MaxNow = 3
INVARIANTS RevocationHolds LimitsHeld UsageHonest PagedOnce
SYMMETRY Interchangeable
CHECK_DEADLOCK FALSE
