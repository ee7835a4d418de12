-------------------------- MODULE MetadataService --------------------------
(***************************************************************************)
(* The API's two operations, POST and GET /v1/metadata: the handlers       *)
(* (api/handlers) around SubmitURL and GetMetadata                         *)
(* (pkg/service/metadata_service_impl.go).                                 *)
(*                                                                         *)
(* A request is a process.  Every call it makes on the repository, the     *)
(* producer and the fetcher is a step of its own, so what it read may be   *)
(* stale when it writes.  Handing the message to Kafka is a step of two    *)
(* components: Dispatched here, Publish in the module of the topic.        *)
(***************************************************************************)
EXTENDS MetadataStore

CONSTANTS
    Requests,       \* requests, each made once
    AsyncFetchOnly, \* FF_ASYNC_FETCH_ONLY
    Faults,         \* the kinds of failure the environment produces
    NoUrl           \* target of a request not yet made

VARIABLES
    op,         \* op[r]: "post" or "get"
    target,     \* target[r]: the URL asked for
    step,       \* step[r]: the next call of r
    found,      \* found[r]: status the first FindByURL of r returned
    cancelled,  \* cancelled[r]: the context of r is, the client is gone
    reply,      \* reply[r]: status code, and the record status shown with it
    brokenAt    \* history: the call at which r gave up or died, "none" else

requests    == <<op, target, step, found, cancelled, reply, brokenAt>>
serviceVars == <<records, requests>>

\* Steps at which SubmitURL or GetMetadata is under way, in the order of the code.
Calls == {"find", "upsert", "dispatch", "mark", "fetch", "saveFailed",
          "saveReady", "reread"}
Steps == Calls \cup {"idle", "done", "dead"}

Codes   == {200, 201, 202, 400, 422, 500}
NoReply == [code |-> 0, shows |-> "nothing"]
Replies == [code : Codes, shows : Statuses \cup {"nothing"}] \cup {NoReply}

ServiceTypeOK ==
    /\ op \in [Requests -> {"post", "get"}]
    /\ target \in [Requests -> Urls \cup {NoUrl}]
    /\ step \in [Requests -> Steps]
    /\ found \in [Requests -> Statuses \cup {Absent}]
    /\ cancelled \in [Requests -> BOOLEAN]
    /\ reply \in [Requests -> Replies]
    /\ brokenAt \in [Requests -> Calls \cup {"none"}]

ServiceInit ==
    /\ op \in [Requests -> {"post", "get"}]
    /\ target = [r \in Requests |-> NoUrl]
    /\ step = [r \in Requests |-> "idle"]
    /\ found = [r \in Requests |-> Absent]
    /\ cancelled = [r \in Requests |-> FALSE]
    /\ reply = [r \in Requests |-> NoReply]
    /\ brokenAt = [r \in Requests |-> "none"]

Active(r) == step[r] \in Calls

-----------------------------------------------------------------------------
(* Parts of the actions *)

GoOn(r, next) ==
    /\ step' = [step EXCEPT ![r] = next]
    /\ UNCHANGED <<op, target, found, cancelled, reply, brokenAt>>

Answer(r, code, shows) ==
    /\ step' = [step EXCEPT ![r] = "done"]
    /\ reply' = [reply EXCEPT ![r] = [code |-> code, shows |-> shows]]
    /\ UNCHANGED <<op, target, cancelled>>

\* A call failed and the request ends there.
GiveUp(r, code) ==
    /\ Answer(r, code, "nothing")
    /\ brokenAt' = [brokenAt EXCEPT ![r] = step[r]]
    /\ UNCHANGED found

\* Mutant of RecordCode: a code the API does not have.
UnknownCode(isNew, status) == 204

\* Mutant of RecordCode: only a pending record is in progress.
PendingCode(isNew, status) ==
    IF status = "pending" THEN 202 ELSE IF isNew THEN 201 ELSE 200

\* The code writes a record with: 202 while it is in progress, else 201 for one
\* SubmitURL calls new.
RecordCode(isNew, status) ==
    IF status \in {"pending", "fetching"} THEN 202
    ELSE IF isNew THEN 201 ELSE 200

\* The calls that take the context of the request.  On a cancelled context they
\* return an error; a write may have been applied all the same.
Succeeds(r)     == ~cancelled[r]
Fails(r, fault) == cancelled[r] \/ fault \in Faults

-----------------------------------------------------------------------------
(* The life of a request *)

\* The client asks for u.  What does not parse or validate is a 400.
Arrive(r) ==
    /\ step[r] = "idle"
    /\ \E u \in Urls : target' = [target EXCEPT ![r] = u]
    /\ step' = [step EXCEPT ![r] = "find"]
    /\ UNCHANGED <<records, op, found, cancelled, reply, brokenAt>>

Reject(r) ==
    /\ step[r] = "idle"
    /\ Answer(r, 400, "nothing")
    /\ UNCHANGED <<records, found, brokenAt>>

\* The client goes away: net/http cancels the context, the handler runs on.
Cancel(r) ==
    /\ "client" \in Faults
    /\ Active(r)
    /\ ~cancelled[r]
    /\ cancelled' = [cancelled EXCEPT ![r] = TRUE]
    /\ UNCHANGED <<records, op, target, step, found, reply, brokenAt>>

\* The API process dies, with every request in it.
ApiCrash ==
    /\ "api" \in Faults
    /\ \E r \in Requests : Active(r)
    /\ step' = [r \in Requests |-> IF Active(r) THEN "dead" ELSE step[r]]
    /\ brokenAt' = [r \in Requests |-> IF Active(r) THEN step[r] ELSE brokenAt[r]]
    /\ UNCHANGED <<records, op, target, found, cancelled, reply>>

-----------------------------------------------------------------------------
(* SubmitURL and GetMetadata *)

\* Mutant of Find: the URL is dispatched before it has a record.
FindSkipsUpsert(r) ==
    /\ step[r] = "find"
    /\ Succeeds(r)
    /\ StatusOf(target[r]) \in {Absent, "failed"}
    /\ step' = [step EXCEPT ![r] = "dispatch"]
    /\ UNCHANGED <<records, op, target, found, cancelled, reply, brokenAt>>

\* The first FindByURL: a ready record is returned, one in progress is left to
\* whoever works on it, and a missing or failed one is submitted again.
Find(r) ==
    /\ step[r] = "find"
    /\ Succeeds(r)
    /\ LET status == StatusOf(target[r]) IN
         /\ found' = [found EXCEPT ![r] = status]
         /\ \/ /\ status = "ready"
               /\ Answer(r, 200, "ready")
            \/ /\ status \in {"pending", "fetching"}
               /\ Answer(r, 202, IF op[r] = "post" THEN status ELSE "pending")
            \/ /\ status \in {Absent, "failed"}
               /\ step' = [step EXCEPT ![r] = "upsert"]
               /\ UNCHANGED <<op, target, cancelled, reply>>
    /\ UNCHANGED <<records, brokenAt>>

FindFails(r) ==
    /\ step[r] = "find"
    /\ Fails(r, "store")
    /\ GiveUp(r, 500)
    /\ UNCHANGED records

\* Mutant of AfterUpsert: a POST is fetched inline whatever the flag.
AfterUpsertInline(r) ==
    IF op[r] = "get" THEN "dispatch" ELSE "mark"

AfterUpsert(r) ==
    IF op[r] = "get" \/ AsyncFetchOnly THEN "dispatch" ELSE "mark"

Upsert(r) ==
    /\ step[r] = "upsert"
    /\ Succeeds(r)
    /\ UpsertPending(target[r])
    /\ GoOn(r, AfterUpsert(r))

\* The upsert reports an error: the store's, applied or not, or a duplicate key,
\* when two requests insert the same URL at once (the unique indexes).
UpsertFails(r) ==
    /\ step[r] = "upsert"
    /\ \/ Fails(r, "store") /\ (UNCHANGED records \/ UpsertPending(target[r]))
       \/ /\ found[r] = Absent
          /\ records[target[r]] # Absent
          /\ UNCHANGED records
    /\ GiveUp(r, 500)

\* dispatchAsyncFetch hands the message to Kafka.  GET answers with a pending
\* record of its own making, POST reads the record once more.
Dispatched(r) ==
    /\ step[r] = "dispatch"
    /\ Succeeds(r)
    /\ \/ op[r] = "get" /\ Answer(r, 202, "pending") /\ UNCHANGED <<found, brokenAt>>
       \/ op[r] = "post" /\ GoOn(r, "reread")
    /\ UNCHANGED records

\* Mutant of DispatchFails: the error is logged and the request goes on.
DispatchErrorLogged(r) ==
    /\ step[r] = "dispatch"
    /\ Fails(r, "publish")
    /\ \/ op[r] = "get" /\ Answer(r, 202, "pending") /\ UNCHANGED <<found, brokenAt>>
       \/ op[r] = "post" /\ GoOn(r, "reread")
    /\ UNCHANGED records

\* Publish returns an error.  The record stays as Upsert left it.
DispatchFails(r) ==
    /\ step[r] = "dispatch"
    /\ Fails(r, "publish")
    /\ GiveUp(r, 500)
    /\ UNCHANGED records

\* UpdateStatus(fetching) of the inline fetch; an error is only logged.
Mark(r) ==
    /\ step[r] = "mark"
    /\ \/ UpdateStatus(target[r], "fetching")
       \/ Fails(r, "store") /\ UNCHANGED records
    /\ GoOn(r, "fetch")

\* The inline fetch takes no context.
InlineFetch(r) ==
    /\ step[r] = "fetch"
    /\ GoOn(r, "saveReady") \/ GoOn(r, "saveFailed")
    /\ UNCHANGED records

\* Mutant of SaveFailed: the record is left as fetching.
SaveFailedForgotten(r) ==
    /\ step[r] = "saveFailed"
    /\ Answer(r, 422, "nothing")
    /\ UNCHANGED <<records, found, brokenAt>>

\* The inline fetch failed: UpdateStatus(failed), whose error is only logged.
SaveFailed(r) ==
    /\ step[r] = "saveFailed"
    /\ \/ /\ Succeeds(r)
          /\ UpdateStatus(target[r], "failed")
          /\ Answer(r, 422, "nothing")
          /\ UNCHANGED <<found, brokenAt>>
       \/ /\ Fails(r, "store")
          /\ UNCHANGED records \/ UpdateStatus(target[r], "failed")
          /\ GiveUp(r, 422)

\* UpdateStatus(ready) with the result of the inline fetch.
SaveReady(r) ==
    /\ step[r] = "saveReady"
    /\ Succeeds(r)
    /\ UpdateReady(target[r])
    /\ GoOn(r, "reread")

SaveReadyFails(r) ==
    /\ step[r] = "saveReady"
    /\ Fails(r, "store")
    /\ UNCHANGED records \/ UpdateReady(target[r])
    /\ GiveUp(r, 500)

\* The last FindByURL of SubmitURL: its record is the answer, called new.
Reread(r) ==
    /\ step[r] = "reread"
    /\ Succeeds(r)
    /\ LET status == StatusOf(target[r]) IN
         Answer(r, RecordCode(TRUE, status), status)
    /\ UNCHANGED <<records, found, brokenAt>>

RereadFails(r) ==
    /\ step[r] = "reread"
    /\ Fails(r, "store")
    /\ GiveUp(r, 500)
    /\ UNCHANGED records

-----------------------------------------------------------------------------
\* Steps of a request that touch nothing but the store.
StoreStep(r) ==
    \/ Find(r) \/ FindFails(r)
    \/ Upsert(r) \/ UpsertFails(r)
    \/ Mark(r) \/ InlineFetch(r)
    \/ SaveFailed(r)
    \/ SaveReady(r) \/ SaveReadyFails(r)
    \/ Reread(r) \/ RereadFails(r)

ClientStep(r) == Arrive(r) \/ Reject(r) \/ Cancel(r)
=============================================================================
