\* Two workers on two partitions, nothing fails.
SPECIFICATION Spec
CONSTANTS
    Urls = {u1}
    Absent = Absent
    NoUrl = NoUrl
    Requests = {r1, r2}
    AsyncFetchOnly = FALSE
    Workers = {w1, w2}
    Partitions = {p1, p2}
    MaxRetries = 0
    NoWorker = NoWorker
    NoMessage = NoMessage
    MaxMessages = 2
    MaxDisruptions = 0
    Faults = {}
INVARIANTS
    NoDuplicateFetch
\* Requests are made once and answered; the workers wait for more.
CHECK_DEADLOCK FALSE
