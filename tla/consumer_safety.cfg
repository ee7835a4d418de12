\* Two workers, requests and undecodable payloads, one retry, two disruptions.
SPECIFICATION Spec
CONSTANTS
    Workers = {w1, w2}
    Partitions = {p1}
    Jobs = {job}
    Malformed = {garbage}
    MaxRetries = 1
    NoWorker = NoWorker
    NoMessage = NoMessage
    MaxMessages = 3
    MaxDisruptions = 2
SYMMETRY Symmetry
INVARIANTS
    TypeOK
    NoSilentLoss
    CommitFollowsOutcome
    StartedInOrder
    NothingBehindReader
PROPERTIES
    DeadLettersAreExhausted
    DeliversAtLeastOnce
\* An idle consumer waits for messages for ever.
CHECK_DEADLOCK FALSE
