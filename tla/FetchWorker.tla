---------------------------- MODULE FetchWorker ----------------------------
(***************************************************************************)
(* handleMessage (worker/consumer/consumer.go): what a worker does with    *)
(* one fetch request.  MetadataSystem puts it into the handler state of    *)
(* the consume loop, which supplies the URL and the state of the context.  *)
(***************************************************************************)
EXTENDS MetadataStore

CONSTANTS
    Workers,
    Faults  \* the kinds of failure the environment produces

VARIABLE phase  \* phase[w]: the next call of handleMessage, "mark" at its start

Phases == {"mark", "fetch", "saveReady", "saveFailed"}

WorkerTypeOK == phase \in [Workers -> Phases]
WorkerInit   == phase = [w \in Workers |-> "mark"]

GoTo(w, next) == phase' = [phase EXCEPT ![w] = next]

\* A call on the repository succeeds on a live context only, and may fail on any
\* context when the store is faulty.  A write that fails may have been applied all
\* the same: the deadline or the cancellation came before the answer.
CallSucceeds(cancelled) == ~cancelled
CallFails(cancelled)    == cancelled \/ "store" \in Faults

\* Mark the record as fetching.  An error is logged and the worker goes on.
MarkFetching(w, u, cancelled) ==
    /\ phase[w] = "mark"
    /\ \/ UpdateStatus(u, "fetching")
       \/ CallFails(cancelled) /\ UNCHANGED records
    /\ GoTo(w, "fetch")

\* fetcher.Fetch takes no context: it runs to its end or its own timeout.
Fetch(w) ==
    /\ phase[w] = "fetch"
    /\ GoTo(w, "saveReady") \/ GoTo(w, "saveFailed")
    /\ UNCHANGED records

\* Mutant of ResultStored: the result is not written.
ResultDropped(w, u, cancelled) ==
    /\ phase[w] = "saveReady"
    /\ CallSucceeds(cancelled)
    /\ UNCHANGED records
    /\ GoTo(w, "mark")

\* The result is stored: handleMessage returns nil.
ResultStored(w, u, cancelled) ==
    /\ phase[w] = "saveReady"
    /\ CallSucceeds(cancelled)
    /\ UpdateReady(u)
    /\ GoTo(w, "mark")

\* The call that stores the result reports an error, applied or not:
\* handleMessage returns it.
ResultLost(w, u, cancelled) ==
    /\ phase[w] = "saveReady"
    /\ CallFails(cancelled)
    /\ UNCHANGED records \/ UpdateReady(u)
    /\ GoTo(w, "mark")

\* Mutant of FailureStored: the record is left as fetching.
FailureNotStored(w, u, cancelled) ==
    /\ phase[w] = "saveFailed"
    /\ UNCHANGED records
    /\ GoTo(w, "mark")

\* The fetch failed: the record says so if it can, and handleMessage returns the
\* error of the fetch either way.
FailureStored(w, u, cancelled) ==
    /\ phase[w] = "saveFailed"
    /\ \/ UpdateStatus(u, "failed")
       \/ CallFails(cancelled) /\ UNCHANGED records
    /\ GoTo(w, "mark")

\* handleMessage returns an error.
ReturnsError(w, u, cancelled) ==
    ResultLost(w, u, cancelled) \/ FailureStored(w, u, cancelled)
=============================================================================
