\* Kafka refuses a message.
SPECIFICATION Spec
CONSTANTS
    Urls = {u1}
    Absent = Absent
    NoUrl = NoUrl
    Requests = {r1, r2}
    AsyncFetchOnly = FALSE
    Workers = {w1}
    Partitions = {p1}
    MaxRetries = 0
    NoWorker = NoWorker
    NoMessage = NoMessage
    MaxMessages = 2
    MaxDisruptions = 0
    Faults = {"publish"}
PROPERTY AcceptedIsOnItsWay
\* Requests are made once and answered; the workers wait for more.
CHECK_DEADLOCK FALSE
