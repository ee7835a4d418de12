--------------------------- MODULE KafkaConsumer ---------------------------
(***************************************************************************)
(* The worker's consume loop (pkg/kafka/consumer.go) on a Kafka topic, and *)
(* the process around it (worker/main.go).                                 *)
(*                                                                         *)
(* Each worker process runs one loop: fetch a message of the partitions    *)
(* its consumer group gave it, call the handler until it succeeds or the   *)
(* retries are used up, hand an exhausted message to the dead letter topic *)
(* and commit its offset.  The broker and the group protocol are outside   *)
(* src/; they are modelled from how the reader is configured and used.     *)
(*                                                                         *)
(* A message is its place <<partition, offset>> in the topic: handlers and *)
(* dead letters are recorded by place, so that two requests for one URL    *)
(* stay apart.                                                             *)
(***************************************************************************)
EXTENDS Integers, Sequences, FiniteSets

CONSTANTS
    Workers,        \* worker processes of the consumer group
    Partitions,     \* partitions of the topic
    Jobs,           \* payloads that decode to a FetchRequestMessage
    Malformed,      \* payloads that do not
    MaxRetries,     \* KAFKA_MAX_RETRIES: any integer, config.validate admits it
    NoWorker,       \* owner of a partition that nobody reads
    NoMessage,      \* current message of an idle worker
    MaxMessages,    \* bound: messages published to one partition
    MaxDisruptions  \* bound: signals, crashes and session timeouts

ASSUME PayloadAssumption  == Jobs \cap Malformed = {}
ASSUME RetriesAssumption  == MaxRetries \in Int
ASSUME NoWorkerAssumption == NoWorker \notin Workers
ASSUME BoundsAssumption   == MaxMessages \in Nat /\ MaxDisruptions \in Nat

VARIABLES
    \* the broker
    log,            \* log[p]: payloads published to partition p, in order
    committed,      \* committed[p]: offset the group resumes p from
    owner,          \* owner[p]: the process that reads p
    position,       \* position[p]: next offset the owner of p is given
    rebalancing,    \* the membership changed since the last assignment
    \* the worker processes
    pc,             \* pc[w]: where the loop of w is
    current,        \* current[w]: the message in hand
    attempt,        \* attempt[w]: the loop variable of processMessage
    stopping,       \* stopping[w]: shutdownCtx of w is cancelled
    \* history
    handled,        \* messages whose handler returned nil
    deadLettered,   \* messages written to the dead letter topic
    abandoned,      \* messages for which processMessage returned false
    skipped,        \* messages a reader passed over by starting at the end
    disruptions     \* signals, crashes and session timeouts so far

broker  == <<log, committed, owner, position, rebalancing>>
workers == <<pc, current, attempt, stopping>>
history == <<handled, deadLettered, abandoned, skipped>>
vars    == <<broker, workers, history, disruptions>>

NoOffset == -1
Payloads == Jobs \cup Malformed
Messages == Partitions \X Nat

InFlightStates == {"handle", "backoff", "deadletter", "commit"}
States         == InFlightStates \cup {"down", "fetch", "returned"}

Payload(m)  == log[m[1]][m[2] + 1]
Live        == {w \in Workers : pc[w] # "down"}
InFlight(w) == pc[w] \in InFlightStates

TypeOK ==
    /\ log \in [Partitions -> Seq(Payloads)]
    /\ committed \in [Partitions -> Nat \cup {NoOffset}]
    /\ owner \in [Partitions -> Workers \cup {NoWorker}]
    /\ position \in [Partitions -> Nat]
    /\ rebalancing \in BOOLEAN
    /\ pc \in [Workers -> States]
    /\ current \in [Workers -> Messages \cup {NoMessage}]
    /\ attempt \in [Workers -> Nat]
    /\ stopping \in [Workers -> BOOLEAN]
    /\ handled \subseteq Messages
    /\ deadLettered \subseteq Messages
    /\ abandoned \subseteq Messages
    /\ skipped \subseteq Messages
    /\ disruptions \in Nat

Init ==
    /\ log = [p \in Partitions |-> <<>>]
    /\ committed = [p \in Partitions |-> NoOffset]
    /\ owner = [p \in Partitions |-> NoWorker]
    /\ position = [p \in Partitions |-> 0]
    /\ rebalancing = FALSE
    /\ pc = [w \in Workers |-> "down"]
    /\ current = [w \in Workers |-> NoMessage]
    /\ attempt = [w \in Workers |-> 0]
    /\ stopping = [w \in Workers |-> FALSE]
    /\ handled = {}
    /\ deadLettered = {}
    /\ abandoned = {}
    /\ skipped = {}
    /\ disruptions = 0

-----------------------------------------------------------------------------
(* The broker and the consumer group *)

\* A producer appends payload x to partition p.
Publish(p, x) ==
    /\ Len(log[p]) < MaxMessages
    /\ log' = [log EXCEPT ![p] = Append(@, x)]
    /\ UNCHANGED <<committed, owner, position, rebalancing, workers, history,
                   disruptions>>

\* Mutants of StartPosition: the group's "none" taken for an offset; one off.
StartAtCommittedOnly(p) == committed[p]
StartAfterCommitted(p) ==
    IF committed[p] = NoOffset THEN Len(log[p]) ELSE committed[p] + 1

\* Where a new assignment starts to read: at the committed offset, or at the
\* end of the partition when the group has none (StartOffset: LastOffset).
StartPosition(p) ==
    IF committed[p] = NoOffset THEN Len(log[p]) ELSE committed[p]

PassedOver(p) ==
    IF committed[p] = NoOffset THEN {p} \X (0 .. Len(log[p]) - 1) ELSE {}

\* Mutant of Rebalance: the new reader goes on where the old one was.
RebalanceKeepsPosition ==
    /\ rebalancing
    /\ Live # {}
    /\ \E assignment \in [Partitions -> Live] : owner' = assignment
    /\ rebalancing' = FALSE
    /\ UNCHANGED <<log, committed, position, workers, history, disruptions>>

\* The group gives every partition to some live member.  All readers reopen,
\* those of partitions that stay with their owner too.
Rebalance ==
    /\ rebalancing
    /\ Live # {}
    /\ \E assignment \in [Partitions -> Live] : owner' = assignment
    /\ position' = [p \in Partitions |-> StartPosition(p)]
    /\ skipped' = skipped \cup UNION {PassedOver(p) : p \in Partitions}
    /\ rebalancing' = FALSE
    /\ UNCHANGED <<log, committed, workers, handled, deadLettered, abandoned,
                   disruptions>>

\* A live member misses its heartbeats: the group rebalances, the member's loop
\* goes on with the message it holds.
SessionTimeout ==
    /\ disruptions < MaxDisruptions
    /\ Live # {}
    /\ ~rebalancing
    /\ rebalancing' = TRUE
    /\ disruptions' = disruptions + 1
    /\ UNCHANGED <<log, committed, owner, position, workers, history>>

\* The partitions of a process that is gone are read by nobody.
Release(w) ==
    /\ owner' = [p \in Partitions |-> IF owner[p] = w THEN NoWorker ELSE owner[p]]
    /\ rebalancing' = TRUE

-----------------------------------------------------------------------------
(* The worker process *)

\* The process starts, joins the group and enters the loop.
Start(w) ==
    /\ pc[w] = "down"
    /\ pc' = [pc EXCEPT ![w] = "fetch"]
    /\ stopping' = [stopping EXCEPT ![w] = FALSE]
    /\ rebalancing' = TRUE
    /\ UNCHANGED <<log, committed, owner, position, current, attempt, history,
                   disruptions>>

\* SIGINT or SIGTERM cancels the context of the loop.
Signal(w) ==
    /\ disruptions < MaxDisruptions
    /\ pc[w] # "down"
    /\ ~stopping[w]
    /\ stopping' = [stopping EXCEPT ![w] = TRUE]
    /\ disruptions' = disruptions + 1
    /\ UNCHANGED <<broker, pc, current, attempt, history>>

\* The process is gone, with whatever its loop held.
Vanish(w) ==
    /\ pc' = [pc EXCEPT ![w] = "down"]
    /\ current' = [current EXCEPT ![w] = NoMessage]
    /\ attempt' = [attempt EXCEPT ![w] = 0]
    /\ Release(w)
    /\ UNCHANGED <<log, committed, position, stopping, history>>

\* After the signal run() closes the consumer and returns.  It does not wait for
\* the goroutine of the loop, wherever that is.
Exit(w) ==
    /\ pc[w] # "down"
    /\ stopping[w]
    /\ Vanish(w)
    /\ UNCHANGED disruptions

\* The process dies without notice.
Crash(w) ==
    /\ disruptions < MaxDisruptions
    /\ pc[w] # "down"
    /\ ~stopping[w]
    /\ Vanish(w)
    /\ disruptions' = disruptions + 1

-----------------------------------------------------------------------------
(* The consume loop *)

\* The end of an iteration: the top of the loop looks at the context.
NextIteration(w) ==
    /\ pc' = [pc EXCEPT ![w] = IF stopping[w] THEN "returned" ELSE "fetch"]
    /\ current' = [current EXCEPT ![w] = NoMessage]
    /\ attempt' = [attempt EXCEPT ![w] = 0]

\* FetchMessage returns and processMessage begins.  A payload that does not
\* decode is committed as it is, and so is every payload when MaxRetries < 0:
\* the retry loop has no iteration.  A cancelled context does not keep
\* FetchMessage from returning a message.
Deliver(w, p) ==
    /\ pc[w] = "fetch"
    /\ owner[p] = w
    /\ position[p] < Len(log[p])
    /\ current' = [current EXCEPT ![w] = <<p, position[p]>>]
    /\ position' = [position EXCEPT ![p] = @ + 1]
    /\ pc' = [pc EXCEPT ![w] =
                 IF Payload(<<p, position[p]>>) \in Jobs /\ 0 <= MaxRetries
                 THEN "handle" ELSE "commit"]
    /\ UNCHANGED <<log, committed, owner, rebalancing, attempt, stopping,
                   history, disruptions>>

\* FetchMessage gives up because the context is cancelled: Start returns.
FetchCancelled(w) ==
    /\ pc[w] = "fetch"
    /\ stopping[w]
    /\ pc' = [pc EXCEPT ![w] = "returned"]
    /\ UNCHANGED <<broker, current, attempt, stopping, history, disruptions>>

\* handler(ctx, fetchMsg) returns nil.
HandlerSucceeds(w) ==
    /\ pc[w] = "handle"
    /\ handled' = handled \cup {current[w]}
    /\ pc' = [pc EXCEPT ![w] = "commit"]
    /\ UNCHANGED <<broker, current, attempt, stopping, deadLettered, abandoned,
                   skipped, disruptions>>

\* Mutant of HandlerFails: one attempt too few.
HandlerFailsEarly(w) ==
    /\ pc[w] = "handle"
    /\ pc' = [pc EXCEPT ![w] =
                 IF attempt[w] + 1 < MaxRetries THEN "backoff" ELSE "deadletter"]
    /\ UNCHANGED <<broker, current, attempt, stopping, history, disruptions>>

\* handler(ctx, fetchMsg) returns an error: back off, or give up after the last
\* attempt.
HandlerFails(w) ==
    /\ pc[w] = "handle"
    /\ pc' = [pc EXCEPT ![w] =
                 IF attempt[w] < MaxRetries THEN "backoff" ELSE "deadletter"]
    /\ UNCHANGED <<broker, current, attempt, stopping, history, disruptions>>

\* time.After(backoff) fires.
BackoffElapses(w) ==
    /\ pc[w] = "backoff"
    /\ attempt' = [attempt EXCEPT ![w] = @ + 1]
    /\ pc' = [pc EXCEPT ![w] = "handle"]
    /\ UNCHANGED <<broker, current, stopping, history, disruptions>>

\* Mutant of BackoffCancelled: processMessage returns true.
BackoffCancelledCommits(w) ==
    /\ pc[w] = "backoff"
    /\ stopping[w]
    /\ abandoned' = abandoned \cup {current[w]}
    /\ pc' = [pc EXCEPT ![w] = "commit"]
    /\ UNCHANGED <<broker, current, attempt, stopping, handled, deadLettered, skipped,
                   disruptions>>

\* The context is cancelled during the backoff: processMessage returns false.
BackoffCancelled(w) ==
    /\ pc[w] = "backoff"
    /\ stopping[w]
    /\ abandoned' = abandoned \cup {current[w]}
    /\ NextIteration(w)
    /\ UNCHANGED <<broker, stopping, handled, deadLettered, skipped, disruptions>>

\* sendToDLT succeeds.  It needs a live context.
DeadLetterWritten(w) ==
    /\ pc[w] = "deadletter"
    /\ ~stopping[w]
    /\ deadLettered' = deadLettered \cup {current[w]}
    /\ pc' = [pc EXCEPT ![w] = "commit"]
    /\ UNCHANGED <<broker, current, attempt, stopping, handled, abandoned,
                   skipped, disruptions>>

\* Mutant of DeadLetterFails: the error is dropped, processMessage returns true.
DeadLetterLost(w) ==
    /\ pc[w] = "deadletter"
    /\ pc' = [pc EXCEPT ![w] = "commit"]
    /\ UNCHANGED <<broker, current, attempt, stopping, history, disruptions>>

\* sendToDLT returns an error, with or without the letter in the topic.  The
\* offset is not committed and the loop goes on to the next message.
DeadLetterFails(w) ==
    /\ pc[w] = "deadletter"
    /\ abandoned' = abandoned \cup {current[w]}
    /\ deadLettered' \in {deadLettered, deadLettered \cup {current[w]}}
    /\ NextIteration(w)
    /\ UNCHANGED <<broker, stopping, handled, skipped, disruptions>>

\* Mutant of CommitSucceeds: commits how far the partition was read.
CommitReadPosition(w) ==
    /\ pc[w] = "commit"
    /\ committed' = [committed EXCEPT ![current[w][1]] = position[current[w][1]]]
    /\ NextIteration(w)
    /\ UNCHANGED <<log, owner, position, rebalancing, stopping, history,
                   disruptions>>

\* CommitMessages stores the offset.  The reader sends it under the present
\* generation of the group, so it counts for a partition that w lost while it
\* worked, and may take the committed offset back.
CommitSucceeds(w) ==
    /\ pc[w] = "commit"
    /\ committed' = [committed EXCEPT ![current[w][1]] = current[w][2] + 1]
    /\ NextIteration(w)
    /\ UNCHANGED <<log, owner, position, rebalancing, stopping, history,
                   disruptions>>

\* CommitMessages fails: the error is logged, the loop goes on.
CommitFails(w) ==
    /\ pc[w] = "commit"
    /\ NextIteration(w)
    /\ UNCHANGED <<broker, stopping, history, disruptions>>

-----------------------------------------------------------------------------
(* What happens inside the handler is left open here; FetchWorker refines it. *)
HandlerReturns(w) == HandlerSucceeds(w) \/ HandlerFails(w)

\* The steps of the loop that wait for nothing but Kafka and the clock.
LoopStep(w) ==
    \/ \E p \in Partitions : Deliver(w, p)
    \/ FetchCancelled(w)
    \/ BackoffElapses(w)
    \/ BackoffCancelled(w)
    \/ DeadLetterWritten(w)
    \/ DeadLetterFails(w)
    \/ CommitSucceeds(w)
    \/ CommitFails(w)

ProcessStep(w) == Start(w) \/ Signal(w) \/ Exit(w) \/ Crash(w)

GroupStep == Rebalance \/ SessionTimeout

Next ==
    \/ \E p \in Partitions, x \in Payloads : Publish(p, x)
    \/ GroupStep
    \/ \E w \in Workers : ProcessStep(w) \/ LoopStep(w) \/ HandlerReturns(w)

Spec == Init /\ [][Next]_vars

-----------------------------------------------------------------------------
(* Properties *)

\* What the loop owes to every message: the handler accepted it, or the dead
\* letter topic did, or it never was a request.
Settled(m) ==
    \/ m \in handled
    \/ m \in deadLettered
    \/ Payload(m) \in Malformed

\* The ways a message may be let go of: settled, given up by processMessage with
\* its offset uncommitted, or never seen by a reader that started at the end.
Accounted(m) == Settled(m) \/ m \in abandoned \/ m \in skipped

Published(m) == m[2] < Len(log[m[1]])

PublishedMessages == UNION {{p} \X (0 .. Len(log[p]) - 1) : p \in Partitions}

\* No offset is committed over a message that nothing accounts for, however
\* crashes, rebalances and the late commits of former owners interleave (Start
\* commits what processMessage returned true for, and every offset before it).
NoSilentLoss ==
    \A p \in Partitions : \A o \in 0 .. committed[p] - 1 :
        Published(<<p, o>>) /\ Accounted(<<p, o>>)

\* The message an offset was committed for was settled first (the return values
\* of processMessage).  It needs MaxRetries >= 0.
CommitFollowsOutcome ==
    \A p \in Partitions :
        committed[p] > 0 => Settled(<<p, committed[p] - 1>>)

\* A message is in hand only when every earlier message of its partition is
\* accounted for: a partition is worked on in order, across owners too (Start
\* takes the next message only when processMessage and commitOffset are done).
StartedInOrder ==
    \A w \in Workers : InFlight(w) =>
        \A o \in 0 .. current[w][2] - 1 : Accounted(<<current[w][1], o>>)

\* Whoever reads a partition has left nothing behind: every message before its
\* position is accounted for or is the one in its hand.  The position is all that
\* tells a reader where to go on, so this is what a rebalance must restore.
NothingBehindReader ==
    \A p \in Partitions : \A w \in Workers : owner[p] = w =>
        \A o \in 0 .. position[p] - 1 :
            Accounted(<<p, o>>) \/ (InFlight(w) /\ current[w] = <<p, o>>)

\* A dead letter is written for a message its worker has just tried MaxRetries + 1
\* times, and never for one that did not decode (the loop of processMessage).
DeadLettersAreExhausted ==
    [][\A m \in deadLettered' \ deadLettered :
          /\ Payload(m) \in Jobs
          /\ \E w \in Workers : current[w] = m /\ attempt[w] = MaxRetries]_vars

\* The loop with its broker implements at-least-once delivery.  It needs
\* MaxRetries >= 0.
Delivery == INSTANCE AtLeastOnce WITH
    published <- [p \in Partitions |-> Len(log[p])],
    accepted  <- {m \in PublishedMessages : Settled(m)},
    letGo     <- abandoned \cup skipped,
    committed <- [p \in Partitions |-> IF committed[p] = NoOffset THEN 0 ELSE committed[p]]

\* Whatever the loop, the group and the processes do is publishing a message, being
\* done with some, or committing over messages done with (Start, processMessage,
\* commitOffset).
DeliversAtLeastOnce == Delivery!Spec

\* Every message published is accounted for at last, whatever fails (the loop of
\* Start never waits on one message for ever).
EveryMessageResolved ==
    \A p \in Partitions : \A o \in 0 .. MaxMessages - 1 :
        Published(<<p, o>>) ~> (Published(<<p, o>>) /\ Accounted(<<p, o>>))
=============================================================================
