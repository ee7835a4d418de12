\* Inline POST and GET: the store, Kafka and commits fail, acknowledgements get lost,
\* clients go away, the API dies, and the worker has one disruption.
SPECIFICATION Spec
CONSTANTS
    Urls = {u1}
    Absent = Absent
    NoUrl = NoUrl
    Requests = {r1, r2}
    AsyncFetchOnly = FALSE
    Workers = {w1}
    Partitions = {p1}
    MaxRetries = 0
    NoWorker = NoWorker
    NoMessage = NoMessage
    MaxMessages = 2
    MaxDisruptions = 1
    Faults = {"store", "publish", "commit", "client", "api"}
SYMMETRY Symmetry
INVARIANTS
    TypeOK
    StrandedOnlyByFailure
    JobsHaveRecords
    RecordsConsistent
    CreatedShowsResult
    AcceptedWasQueued
 
\* Requests are made once and answered; the workers wait for more.
CHECK_DEADLOCK FALSE
