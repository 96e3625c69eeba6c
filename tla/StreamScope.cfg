SPECIFICATION FairSpec
CONSTANTS
    Symbols = {1, 2, 3}
    Exchanges = {"a", "b"}
    PerConnection = 1
    MaxConnections = 2
    Limit = 2
    Canary = {2}
    Scopes <- MCScopes
    Homes <- MCHomes
    Budgets <- MCBudgets
INVARIANT SocketsFollowPlan
PROPERTY RescanTakesWhatLeft
PROPERTY ScopeConverges
CHECK_DEADLOCK FALSE
