\* Dead letters and commits fail, one disruption, one retry, two partitions.
SPECIFICATION FairSpec
CONSTANTS
    Urls = {u1}
    Absent = Absent
    NoUrl = NoUrl
    Requests = {r1, r2}
    AsyncFetchOnly = FALSE
    Workers = {w1}
    Partitions = {p1, p2}
    MaxRetries = 1
    NoWorker = NoWorker
    NoMessage = NoMessage
    MaxMessages = 2
    MaxDisruptions = 1
    Faults = {"letter", "commit"}
INVARIANT RequestsStrandNothing
PROPERTIES
    InProgressEnds
    MessagesResolved
    RecordsLiveTheirCycle
\* Requests are made once and answered; the workers wait for more.
CHECK_DEADLOCK FALSE
