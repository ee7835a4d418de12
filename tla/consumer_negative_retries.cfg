\* KAFKA_MAX_RETRIES=-1, which the configuration admits.
SPECIFICATION Spec
CONSTANTS
    Workers = {w1}
    Partitions = {p1}
    Jobs = {job}
    Malformed = {}
    MaxRetries <- NegativeRetries
    NoWorker = NoWorker
    NoMessage = NoMessage
    MaxMessages = 2
    MaxDisruptions = 0
INVARIANT CommitFollowsOutcome
\* An idle consumer waits for messages for ever.
CHECK_DEADLOCK FALSE
