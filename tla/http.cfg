\* Two connections share a budget of two; fetches outlast the write timeout.
SPECIFICATION FairSpec
CONSTANTS
    Addresses = {a1}
    Rate = 2
    Window = 1
    MaxTime = 4
    NoVisitor = NoVisitor
    Callers = {c1, c2}
    FetchTimeout = 2
    MaxRedirects = 2
    FlagSets = {{"metrics", "tracing"}, {"metrics", "ratelimit"}}
    WriteTimeout = 1
INVARIANTS
    TypeOK
    AtMostTwoBudgets
    BudgetKept
    
PROPERTIES
    RefusedOnlyWhenSpent
    EveryRequestEnds
