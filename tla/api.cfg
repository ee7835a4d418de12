\* Two requests, which may never end, a probe, and the five attempts of ConnectMongo.
SPECIFICATION FairSpec
CONSTANTS
    Requests = {r1, r2}
    MaxAttempts = 5
\* The process exits, and nothing starts it again.
CHECK_DEADLOCK FALSE
INVARIANTS
    TypeOK
    ClosedOnlyAfterFailure
    GracefulStopAnswersAll
    ReadyMeansSeen
    FewLeftBehind
PROPERTIES
    StopsWhenTold
    
