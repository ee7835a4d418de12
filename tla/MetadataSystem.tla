--------------------------- MODULE MetadataSystem ---------------------------
(***************************************************************************)
(* The whole pipeline: requests of the API, the topic, the consume loops   *)
(* of the workers, the handler they run, and the collection all of them    *)
(* write.                                                                  *)
(*                                                                         *)
(* The components meet in three places.  A request hands its URL to the    *)
(* topic (Dispatched with Publish); the handler of a loop in state         *)
(* "handle" goes through the phases of FetchWorker; and its last phase is  *)
(* the loop's HandlerSucceeds or HandlerFails.                             *)
(***************************************************************************)
EXTENDS Integers, Sequences, FiniteSets

CONSTANTS
    Urls, Absent, NoUrl,
    Requests, AsyncFetchOnly,
    Workers, Partitions, MaxRetries, NoWorker, NoMessage,
    MaxMessages, MaxDisruptions,
    Faults

\* The kinds of failure: calls on the repository, on the producer and on the dead
\* letter topic, commits, clients that go away, death of the API process.
FaultKinds == {"store", "publish", "letter", "commit", "client", "api"}

ASSUME FaultsAssumption == Faults \subseteq FaultKinds
ASSUME FlagAssumption   == AsyncFetchOnly \in BOOLEAN
ASSUME NoUrlAssumption  == NoUrl \notin Urls
ASSUME LoopAssumption   == MaxRetries \in Int /\ NoWorker \notin Workers
ASSUME BoundsAssumption == MaxMessages \in Nat /\ MaxDisruptions \in Nat

VARIABLES
    records,
    op, target, step, found, cancelled, reply, brokenAt,
    phase,
    log, committed, owner, position, rebalancing,
    pc, current, attempt, stopping,
    handled, deadLettered, abandoned, skipped, disruptions,
    interrupted  \* history: URLs in the handler of a process when it vanished

Store    == INSTANCE MetadataStore
Service  == INSTANCE MetadataService
Handler  == INSTANCE FetchWorker
\* The producer marshals every message, so none is malformed.
Consumer == INSTANCE KafkaConsumer WITH Jobs <- Urls, Malformed <- {}

ASSUME AbsentAssumption == Absent \notin Store!Record /\ Absent \notin Store!Statuses

requests == <<op, target, step, found, cancelled, reply, brokenAt>>
topic    == <<log, committed, owner, position, rebalancing, pc, current, attempt,
              stopping, handled, deadLettered, abandoned, skipped, disruptions>>
vars     == <<records, requests, phase, topic, interrupted>>

TypeOK ==
    /\ Store!StoreTypeOK
    /\ Service!ServiceTypeOK
    /\ Handler!WorkerTypeOK
    /\ Consumer!TypeOK
    /\ interrupted \subseteq Urls

Init ==
    /\ Store!StoreInit
    /\ Service!ServiceInit
    /\ Handler!WorkerInit
    /\ Consumer!Init
    /\ interrupted = {}

-----------------------------------------------------------------------------
(* The API *)

\* A step of a request on the store, or of its client.
ApiStep(r) ==
    /\ Service!ClientStep(r) \/ Service!StoreStep(r)
    /\ UNCHANGED <<phase, topic, interrupted>>

\* Mutant of PublishRequest: two batches for one message.
PublishTwice(r) ==
    /\ Service!Dispatched(r)
    /\ \E p \in Partitions :
          log' = [log EXCEPT ![p] = @ \o <<target[r], target[r]>>]
    /\ UNCHANGED <<committed, owner, position, rebalancing, pc, current, attempt, stopping,
                   handled, deadLettered, abandoned, skipped, disruptions, phase,
                   interrupted>>

\* The balancer of the writer is LeastBytes, which looks at sizes and not at keys:
\* any partition may get the message.
PublishRequest(r) ==
    /\ Service!Dispatched(r)
    /\ \E p \in Partitions : Consumer!Publish(p, target[r])
    /\ UNCHANGED <<phase, interrupted>>

\* An attempt of the writer reaches the topic and its acknowledgement is lost.  The
\* writer tries again, and goes on with the message when WriteMessages has returned
\* for a context that is over: there may be several copies, and late ones.
WriterSends(r) ==
    /\ Service!Fails(r, "publish")
    /\ step[r] = "dispatch" \/ (step[r] = "done" /\ brokenAt[r] = "dispatch")
    /\ \E p \in Partitions : Consumer!Publish(p, target[r])
    /\ UNCHANGED <<records, requests, phase, interrupted>>

\* WriteMessages reports an error.
PublishFails(r) ==
    /\ Service!DispatchFails(r)
    /\ UNCHANGED <<phase, topic, interrupted>>

ApiCrash ==
    /\ Service!ApiCrash
    /\ UNCHANGED <<phase, topic, interrupted>>

-----------------------------------------------------------------------------
(* The workers *)

Working(w) == pc[w] = "handle"

UrlInHand(w) == Consumer!Payload(current[w])

\* w has a message of u that its handler has not accepted yet.
InHandOf(w, u) ==
    pc[w] \in {"handle", "backoff", "deadletter"} /\ UrlInHand(w) = u

\* A step inside the handler.
HandlerStep(w) ==
    /\ Working(w)
    /\ \/ Handler!MarkFetching(w, UrlInHand(w), stopping[w])
       \/ Handler!Fetch(w)
    /\ UNCHANGED <<requests, topic, interrupted>>

\* The handler returns to the loop.
HandlerReturns(w) ==
    /\ \/ /\ Handler!ResultStored(w, UrlInHand(w), stopping[w])
          /\ Consumer!HandlerSucceeds(w)
       \/ /\ Handler!ReturnsError(w, UrlInHand(w), stopping[w])
          /\ Consumer!HandlerFails(w)
    /\ UNCHANGED <<requests, interrupted>>

\* The rest of the loop does not touch the collection.
Delivers(w)   == \E p \in Partitions : Consumer!Deliver(w, p)
Waits(w)      == Consumer!BackoffElapses(w) \/ Consumer!BackoffCancelled(w)
SendsLetter(w) ==
    \/ Consumer!DeadLetterWritten(w)
    \/ /\ stopping[w] \/ "letter" \in Faults
       /\ Consumer!DeadLetterFails(w)
Commits(w) ==
    \/ Consumer!CommitSucceeds(w)
    \/ /\ stopping[w] \/ "commit" \in Faults
       /\ Consumer!CommitFails(w)

LoopStep(w) ==
    /\ \/ Delivers(w)
       \/ Consumer!FetchCancelled(w)
       \/ Waits(w)
       \/ SendsLetter(w)
       \/ Commits(w)
    /\ UNCHANGED <<records, requests, phase, interrupted>>

GroupStep ==
    /\ Consumer!GroupStep
    /\ UNCHANGED <<records, requests, phase, interrupted>>

ProcessRuns(w) ==
    /\ Consumer!Start(w) \/ Consumer!Signal(w)
    /\ UNCHANGED <<records, requests, phase, interrupted>>

\* With the process goes its handler, between any two calls.
ProcessEnds(w) ==
    /\ Consumer!Exit(w) \/ Consumer!Crash(w)
    /\ phase' = [phase EXCEPT ![w] = "mark"]
    /\ interrupted' = interrupted \cup
           {u \in Urls : InHandOf(w, u)}
    /\ UNCHANGED <<records, requests>>

-----------------------------------------------------------------------------
RequestStep(r) ==
    ApiStep(r) \/ PublishRequest(r) \/ PublishFails(r) \/ WriterSends(r)

WorkerStep(w) ==
    HandlerStep(w) \/ HandlerReturns(w) \/ LoopStep(w) \/ ProcessRuns(w) \/ ProcessEnds(w)

Next ==
    \/ \E r \in Requests : RequestStep(r)
    \/ ApiCrash
    \/ GroupStep
    \/ \E w \in Workers : WorkerStep(w)

Spec == Init /\ [][Next]_vars

-----------------------------------------------------------------------------
(* Properties *)

InProgress(u) == Store!InProgress(u)

JobsOf(u) == {m \in Partitions \X (0 .. MaxMessages - 1) :
                 Consumer!Published(m) /\ Consumer!Payload(m) = u}

\* Somebody still has to write the final status of u: a request between its Upsert
\* and its last write, or a message of u that is to be handled.
Attended(u) ==
    \/ \E r \in Requests :
          /\ target[r] = u
          /\ step[r] \in {"dispatch", "mark", "fetch", "saveReady", "saveFailed"}
    \/ \E m \in JobsOf(u) : ~Consumer!Accounted(m)
    \/ \E w \in Workers : InHandOf(w, u)

\* A request that gave up or died between its Upsert and its last write.  An Upsert
\* that reports a duplicate key has written nothing; one that fails may have.
GaveUp(r) ==
    \/ brokenAt[r] \in {"dispatch", "mark", "fetch", "saveFailed", "saveReady"}
    \/ brokenAt[r] = "upsert" /\ Service!Fails(r, "store")

\* The ways in which the code lets go of a record it left in progress: a request
\* that gave up, a message that no reader saw or that was given up, a dead letter
\* whose record could not be written, a handler that vanished with its process.
Forsaken(u) ==
    \/ \E r \in Requests : target[r] = u /\ GaveUp(r)
    \/ \E m \in JobsOf(u) : m \in skipped \/ m \in abandoned
    \/ \E m \in JobsOf(u) : m \in deadLettered /\ "store" \in Faults
    \/ u \in interrupted

\* A record in progress is attended to, unless one of these befell it: no other
\* interleaving of requests, redeliveries and workers strands it (the writes of
\* SubmitURL, GetMetadata and handleMessage).
StrandedOnlyByFailure ==
    \A u \in Urls : InProgress(u) => Attended(u) \/ Forsaken(u)

\* With a store, a Kafka and an API that do not fail, and clients that wait, no request
\* leaves a record behind, however the requests of one URL race, duplicate keys
\* included: only the workers do (every return of SubmitURL and GetMetadata).
RequestsStrandNothing ==
    Faults \cap {"store", "publish", "client", "api"} = {} =>
        \A u \in Urls : InProgress(u) =>
            \/ Attended(u)
            \/ \E m \in JobsOf(u) : m \in skipped \/ m \in abandoned
            \/ u \in interrupted

\* The pipeline implements the life cycle of a record.
LifeCycle == INSTANCE RecordLifeCycle WITH
    attended <- {u \in Urls : Attended(u)},
    forsaken <- {u \in Urls : Forsaken(u)}

\* Whoever writes a record has business with it, and nobody leaves one in progress but
\* by a failure (the writes of SubmitURL, GetMetadata and handleMessage).
RecordsLiveTheirCycle == LifeCycle!Spec

\* A request that had to submit its URL and was answered 202 has its message in the
\* topic, in the modes that queue it: Publish has returned before the answer, and the
\* record POST reads back may be anybody's (dispatchAsyncFetch, GetMetadata).
AcceptedWasQueued ==
    \A r \in Requests :
        /\ reply[r].code = 202
        /\ found[r] \in {Absent, "failed"}
        /\ op[r] = "get" \/ AsyncFetchOnly
        => JobsOf(target[r]) # {}

\* r has handed its URL to the topic, and Publish returned.
HandedOver(r) ==
    /\ op[r] = "get" \/ AsyncFetchOnly
    /\ \/ "reread" \in {step[r], brokenAt[r]}
       \/ reply[r].code \in {201, 202} /\ found[r] \in {Absent, "failed"}

\* While the writer need not retry and clients wait, the topic has exactly one message
\* of a URL for each request that handed it over, whatever becomes of the requests, the
\* API and the workers (dispatchAsyncFetch, its two callers, Publish).
QueuedOnce ==
    Faults \cap {"publish", "client"} = {} =>
        \A u \in Urls :
            Cardinality(JobsOf(u)) =
                Cardinality({r \in Requests : target[r] = u /\ HandedOver(r)})

\* Whoever takes a message finds the document it is about: UpdateStatus matches
\* nothing without one, and the fetch would be lost (Upsert before
\* dispatchAsyncFetch).
JobsHaveRecords ==
    \A u \in Urls : JobsOf(u) # {} => records[u] # Absent

RecordsConsistent == Store!RecordsConsistent

\* Somebody else than request r may have failed the fetch of its URL: another inline
\* POST, or a worker with a message of it.
OthersFail(r) ==
    \/ \E q \in Requests \ {r} :
          target[q] = target[r] /\ (reply[q].code = 422 \/ brokenAt[q] = "saveFailed")
    \/ JobsOf(target[r]) # {}

\* A 201 shows a ready record, although others write between the last write of
\* SubmitURL and the read that decides its answer.  If it shows a failed one somebody
\* else failed, and one in progress is a 202 (the last FindByURL, RecordCode).
CreatedShowsResult ==
    \A r \in Requests : reply[r].code = 201 =>
        \/ reply[r].shows = "ready"
        \/ reply[r].shows = "failed" /\ OthersFail(r)

\* Seen from the topic the pipeline is the consume loop of KafkaConsumer: the API and
\* the handlers do nothing to it that the loop's own theorems do not allow for.
ConsumerSpec == Consumer!Spec

\* Every message published is accounted for at last, by the handler of this pipeline
\* too (the loop of Start never waits on one message for ever).
MessagesResolved == Consumer!EveryMessageResolved

\* A record in progress becomes ready or failed, or is forsaken.
InProgressEnds ==
    \A u \in Urls : InProgress(u) ~> (~InProgress(u) \/ Forsaken(u))

-----------------------------------------------------------------------------
(***************************************************************************)
(* Fairness.  A handler of the HTTP server runs to its end.  A loop in hand *)
(* of a message goes on: the handler returns (the fetcher and the database  *)
(* calls have timeouts), time passes, and Kafka answers, one way or the     *)
(* other.  Partitions are read in parallel, hence one condition for each.   *)
(* The group completes its rebalances, a signalled process leaves, and when *)
(* no worker runs somebody starts one.                                      *)
(***************************************************************************)
RequestGoesOn(r) ==
    \/ Service!StoreStep(r) /\ UNCHANGED <<phase, topic, interrupted>>
    \/ PublishRequest(r)
    \/ PublishFails(r)

Aside(A) == A /\ UNCHANGED <<records, requests, phase, interrupted>>

Fairness ==
    /\ \A r \in Requests : WF_vars(RequestGoesOn(r))
    /\ \A w \in Workers :
        /\ WF_vars(HandlerStep(w) \/ HandlerReturns(w))
        /\ \A p \in Partitions : WF_vars(Aside(Consumer!Deliver(w, p)))
        /\ WF_vars(Aside(Waits(w)))
        /\ WF_vars(Aside(SendsLetter(w)))
        /\ WF_vars(Aside(Commits(w)))
        /\ WF_vars(ProcessEnds(w) /\ stopping[w])
    /\ WF_vars(Aside(Consumer!Rebalance))
    /\ WF_vars(Aside(Consumer!Live = {} /\ \E w \in Workers : Consumer!Start(w)))

FairSpec == Spec /\ Fairness
=============================================================================
