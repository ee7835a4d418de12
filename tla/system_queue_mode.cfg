\* FF_ASYNC_FETCH_ONLY=true and two workers, with a faulty store and dead letter
\* topic and one disruption: redeliveries and duplicate messages meet.
SPECIFICATION Spec
CONSTANTS
    Urls = {u1}
    Absent = Absent
    NoUrl = NoUrl
    Requests = {r1, r2}
    AsyncFetchOnly = TRUE
    Workers = {w1, w2}
    Partitions = {p1}
    MaxRetries = 0
    NoWorker = NoWorker
    NoMessage = NoMessage
    MaxMessages = 2
    MaxDisruptions = 1
    Faults = {"store", "letter"}
SYMMETRY Symmetry
INVARIANTS
    StrandedOnlyByFailure
    AcceptedWasQueued
    
\* Requests are made once and answered; the workers wait for more.
CHECK_DEADLOCK FALSE
