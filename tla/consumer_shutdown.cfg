\* One signal.
SPECIFICATION Spec
CONSTANTS
    Workers = {w1}
    Partitions = {p1}
    Jobs = {job}
    Malformed = {}
    MaxRetries = 1
    NoWorker = NoWorker
    NoMessage = NoMessage
    MaxMessages = 2
    MaxDisruptions = 1
PROPERTY DrainedBeforeExit
\* An idle consumer waits for messages for ever.
CHECK_DEADLOCK FALSE
