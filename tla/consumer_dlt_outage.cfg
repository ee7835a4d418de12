\* No signal and no crash: a message is abandoned only when its dead letter fails.
SPECIFICATION Spec
CONSTANTS
    Workers = {w1}
    Partitions = {p1}
    Jobs = {job}
    Malformed = {}
    MaxRetries = 1
    NoWorker = NoWorker
    NoMessage = NoMessage
    MaxMessages = 2
    MaxDisruptions = 0
INVARIANT DltOutagesLoseNoWork
\* An idle consumer waits for messages for ever.
CHECK_DEADLOCK FALSE
