---------------------------- MODULE AnswerProofs ----------------------------
(***************************************************************************)
(* What answers say, for any number of URLs, requests and workers: a 201   *)
(* shows an outcome (CreatedShowsResult), a 202 for a submission in a mode *)
(* that queues means a message in the topic (AcceptedWasQueued), and each  *)
(* request has put one there, unless the writer retried (QueuedOnce).      *)
(*                                                                         *)
(* What a 201 shows is read a step before it is given, so the              *)
(* property is about the request that is about to read (Blamed): a record  *)
(* that failed since its own last write was failed by another request,     *)
(* whose answer tells, or by a worker, whose message is in the topic.  A   *)
(* 202 given at that read is about where the request came from (Routed).   *)
(***************************************************************************)
EXTENDS StrandedProofs, FiniteSetTheorems

\* A request with an answer is over.
Answered == \A r \in Requests : reply[r].code # 0 => step[r] = "done"

\* A request about to read its record back sees a failed one only if others failed.
Blamed ==
    \A r \in Requests :
        step[r] = "reread" /\ Store!StatusOf(target[r]) = "failed" => OthersFail(r)

-----------------------------------------------------------------------------
(* What others did is not undone *)

LEMMA OthersFailKept ==
    ASSUME Everything, Answered, [Next]_vars, NEW r \in Requests,
           target'[r] = target[r], OthersFail(r)
    PROVE  OthersFail(r)'
<1>1. CASE JobsOf(target[r]) # {}
  <2>1. JobsOf(target[r]) \subseteq JobsOf(target[r])'
    BY StepIsLoopStep, JobsKept DEF Everything
  <2> QED BY <1>1, <2>1 DEF OthersFail, JobsOf
<1>2. ASSUME NEW q \in Requests \ {r}, target[q] = target[r],
             reply[q].code = 422 \/ brokenAt[q] = "saveFailed"
      PROVE  OthersFail(r)'
  <2>1. step[q] \in {"done", "dead"}
    BY <1>2 DEF Everything, Over, Answered
  <2>2. UNCHANGED <<brokenAt[q], target[q], reply[q]>>
    BY <2>1, EndedKept DEF Everything
  <2> QED BY <1>2, <2>2 DEF OthersFail
<1> QED BY <1>1, <1>2 DEF OthersFail

-----------------------------------------------------------------------------
(* Who fails a record *)

\* A result that is written makes the record ready.
LEMMA ReadyWritten ==
    ASSUME Everything, NEW u \in Urls, records[u] # Absent, Store!UpdateReady(u)
    PROVE  Store!StatusOf(u)' = "ready"
<1> DEFINE doc == [records[u] EXCEPT !.status = "ready", !.result = TRUE]
<1> USE DEF Everything, IInv, StoreInv, Store!StoreTypeOK
<1>1. records[u] \in Store!Record
  OBVIOUS
<1>2. records' = [records EXCEPT ![u] = doc]
  BY DEF Store!UpdateReady
<1>3. doc \in Store!Record /\ doc.status = "ready"
  BY <1>1, Documents DEF Store!Record, Store!Statuses
<1> HIDE DEF doc
<1> QED BY <1>2, <1>3, AbsentAssumption DEF Store!StatusOf

\* A record becomes failed by a write of that status to it, and by no other.
LEMMA FailedByWrite ==
    ASSUME Everything, NEW u \in Urls, NEW v, UNCHANGED records \/ Writes(v),
           Store!StatusOf(u) # "failed", Store!StatusOf(u)' = "failed"
    PROVE  /\ v = u /\ Store!UpdateStatus(u, "failed")
           /\ ~UNCHANGED records /\ ~Store!UpsertPending(u)
           /\ ~Store!UpdateStatus(u, "fetching") /\ ~Store!UpdateReady(u)
<1> USE AbsentAssumption DEF Everything, IInv, StoreInv, Store!StoreTypeOK
<1>1. ~UNCHANGED records
  BY DEF Store!StatusOf
<1>2. v = u
  BY <1>1 DEF Writes, Store!UpsertPending, Store!UpdateStatus, Store!UpdateReady,
     Store!StatusOf
<1>3. ~Store!UpsertPending(u)
  <2> DEFINE doc == [status |-> "pending", result |-> FALSE, retryCount |-> 0]
  <2>1. doc \in Store!Record /\ doc.status = "pending"
    BY DEF Store!Record, Store!Statuses
  <2>2. Store!UpsertPending(u) => records'[u] = doc
    BY DEF Store!UpsertPending
  <2> HIDE DEF doc
  <2> QED BY <2>1, <2>2 DEF Store!StatusOf
<1>4. ~Store!UpdateStatus(u, "fetching") /\ ~Store!UpdateReady(u)
  <2>1. records[u] # Absent => records[u] \in Store!Record
    OBVIOUS
  <2>2. CASE Store!UpdateStatus(u, "fetching")
    <3> DEFINE n   == records[u].retryCount
               doc == [records[u] EXCEPT !.status = "fetching", !.retryCount = n]
    <3>1. records[u] # Absent /\ records' = [records EXCEPT ![u] = doc]
      BY <1>1, <2>1, <2>2 DEF Store!UpdateStatus
    <3>2. n \in Nat
      BY <2>1, <3>1 DEF Store!Record
    <3> HIDE DEF n
    <3>3. doc \in Store!Record /\ doc.status = "fetching"
      BY <2>1, <3>1, <3>2, Documents DEF Store!Record, Store!Statuses
    <3> HIDE DEF doc
    <3> QED BY <3>1, <3>3 DEF Store!StatusOf
  <2>3. CASE Store!UpdateReady(u)
    <3>1. records[u] # Absent
      BY <1>1, <2>3 DEF Store!UpdateReady
    <3> QED BY <2>3, <3>1, ReadyWritten
  <2> QED BY <2>2, <2>3
<1> QED BY <1>1, <1>2, <1>3, <1>4 DEF Writes

\* A worker that changes a record has a message of it.
LEMMA WorkerHasJob ==
    ASSUME Everything, NEW w \in Workers, WorkerStep(w), NEW u \in Urls,
           Store!StatusOf(u) # "failed", Store!StatusOf(u)' = "failed"
    PROVE  JobsOf(u)' # {}
<1>1. CASE HandlerStep(w) \/ HandlerReturns(w)
  <2>1. Consumer!InFlight(w)
    BY <1>1 DEF HandlerStep, HandlerReturns, Working, Consumer!HandlerSucceeds,
       Consumer!HandlerFails, Consumer!InFlight, Consumer!InFlightStates
  <2>2. UNCHANGED records \/ Writes(UrlInHand(w))
    BY <1>1, HandlerWrites
       DEF HandlerStep, HandlerReturns, Handler!MarkFetching, Handler!Fetch,
           Handler!ResultStored, Handler!ReturnsError, Handler!ResultLost,
           Handler!FailureStored
  <2>3. UrlInHand(w) = u
    BY <2>2, FailedByWrite
  <2>4. JobsOf(u) \subseteq JobsOf(u)'
    <3>1. [Next]_vars
      BY DEF Next
    <3> QED BY <3>1, StepIsLoopStep, JobsKept DEF Everything
  <2> QED BY <2>1, <2>3, <2>4, HandIsJob
<1>2. CASE LoopStep(w) \/ ProcessRuns(w) \/ ProcessEnds(w)
  <2>1. UNCHANGED records
    BY <1>2 DEF LoopStep, ProcessRuns, ProcessEnds
  <2> QED BY <2>1 DEF Store!StatusOf
<1> QED BY <1>1, <1>2 DEF WorkerStep

\* A request that does so answers 422.
LEMMA RequestAnswers422 ==
    ASSUME Everything, NEW q \in Requests, RequestStep(q), NEW r \in Requests,
           step[r] = "reread",
           Store!StatusOf(target[r]) # "failed", Store!StatusOf(target[r])' = "failed"
    PROVE  OthersFail(r)' \/ target'[r] # target[r]
<1> USE DEF Everything, IInv, RequestInv, Service!ServiceTypeOK
<1>1. target[r] \in Urls
  BY DEF Targeted, Service!Calls
<1>2. Store!StatusOf(target[r])' = "failed" /\ target'[r] = target[r] =>
          \E u \in Urls : /\ u = target[r] /\ u = target'[r]
                          /\ Store!StatusOf(u) # "failed"
                          /\ Store!StatusOf(u)' = "failed"
  BY <1>1 DEF Store!StatusOf
<1> SUFFICES ASSUME NEW u \in Urls, u = target[r], u = target'[r],
                    Store!StatusOf(u) # "failed", Store!StatusOf(u)' = "failed"
             PROVE  OthersFail(r)'
  BY <1>2
<1>3. ~UNCHANGED records
  BY DEF Store!StatusOf
<1>4. Service!StoreStep(q)
  BY <1>3 DEF RequestStep, ApiStep, PublishRequest, PublishFails, WriterSends,
     Service!ClientStep, Service!Arrive, Service!Reject, Service!Cancel,
     Service!Dispatched, Service!DispatchFails
<1>5. UNCHANGED records \/ Writes(target[q])
  BY <1>4, ServiceWrites DEF Service!StoreStep, Service!Find, Service!FindFails,
     Service!Upsert, Service!UpsertFails, Service!Mark, Service!InlineFetch,
     Service!SaveFailed, Service!SaveReady, Service!SaveReadyFails, Service!Reread,
     Service!RereadFails
<1>6. /\ target[q] = u
      /\ ~Store!UpsertPending(u)
      /\ ~Store!UpdateStatus(u, "fetching") /\ ~Store!UpdateReady(u)
  BY <1>5, FailedByWrite
<1>7. Service!SaveFailed(q)
  BY <1>3, <1>4, <1>6
     DEF Service!StoreStep, Service!Find, Service!FindFails, Service!Upsert,
         Service!UpsertFails, Service!Mark, Service!InlineFetch, Service!SaveReady,
         Service!SaveReadyFails, Service!Reread, Service!RereadFails,
         Service!UpsertPending, Store!UpsertPending, Service!UpdateStatus,
         Store!UpdateStatus, Service!UpdateReady, Store!UpdateReady
<1>8. q # r /\ UNCHANGED target /\ reply'[q].code = 422
  BY <1>7 DEF Service!SaveFailed, Service!GiveUp, Service!Answer
<1> QED BY <1>6, <1>8 DEF OthersFail

-----------------------------------------------------------------------------
(* The requests that read their record back *)

\* A request comes to its last read by its own result, or by its message.
LEMMA ComesToReread ==
    ASSUME Everything, [Next]_vars, NEW r \in Requests,
           step[r] # "reread", step'[r] = "reread"
    PROVE  Service!SaveReady(r) \/ PublishRequest(r)
<1> USE DEF Everything, IInv, RequestInv, Service!ServiceTypeOK
<1>1. ASSUME NEW q \in Requests, RequestStep(q)
      PROVE  Service!SaveReady(r) \/ PublishRequest(r)
  <2>1. q = r
    BY <1>1, OneRequest
  <2>2. CASE Service!StoreStep(r)
    BY <2>2, StoreStepEnds DEF Service!GoOn, Service!Answer, Service!GiveUp
  <2>3. CASE Service!ClientStep(r) \/ PublishFails(r) \/ WriterSends(r)
    BY <2>3 DEF Service!ClientStep, Service!Arrive, Service!Reject, Service!Cancel,
       PublishFails, Service!DispatchFails, Service!GiveUp, Service!Answer, WriterSends,
       requests
  <2> QED BY <1>1, <2>1, <2>2, <2>3 DEF RequestStep, ApiStep
<1>2. ASSUME NEW w \in Workers, WorkerStep(w)
      PROVE  UNCHANGED step
  BY <1>2, WorkerWrites DEF requests
<1>3. GroupStep \/ UNCHANGED vars => UNCHANGED step
  BY DEF GroupStep, vars, requests
<1>4. ApiCrash => step'[r] # "reread"
  BY DEF ApiCrash, Service!ApiCrash, Service!Active, Service!Calls
<1> QED BY <1>1, <1>2, <1>3, <1>4 DEF Next

\* While it is there it keeps its URL.
LEMMA StaysAtReread ==
    ASSUME Everything, [Next]_vars, NEW r \in Requests,
           step[r] = "reread"
    PROVE  target'[r] = target[r]
<1> USE DEF Everything, IInv, RequestInv, Service!ServiceTypeOK
<1>1. ASSUME NEW q \in Requests, RequestStep(q)
      PROVE  target'[r] = target[r]
  BY <1>1
     DEF RequestStep, ApiStep, PublishRequest, PublishFails, WriterSends, requests,
         Service!GoOn, Service!Answer, Service!GiveUp, Service!StoreStep, Service!Find,
         Service!FindFails, Service!Upsert, Service!UpsertFails, Service!Mark,
         Service!InlineFetch, Service!SaveFailed, Service!SaveReady,
         Service!SaveReadyFails, Service!Reread, Service!RereadFails,
         Service!ClientStep, Service!Arrive, Service!Reject, Service!Cancel,
         Service!Dispatched, Service!DispatchFails
<1>2. ASSUME NEW w \in Workers, WorkerStep(w)
      PROVE  UNCHANGED target
  BY <1>2, WorkerWrites DEF requests
<1>3. GroupStep \/ ApiCrash \/ UNCHANGED vars => UNCHANGED target
  BY DEF GroupStep, ApiCrash, Service!ApiCrash, vars, requests
<1> QED BY <1>1, <1>2, <1>3 DEF Next

\* A request that has handed its URL over has a message of it in the topic.
LEMMA PublishedIsJob ==
    ASSUME Everything, NEW r \in Requests, PublishRequest(r)
    PROVE  /\ target'[r] = target[r]
           /\ JobsOf(target[r])' # {}
<1>1. target[r] \in Urls /\ UNCHANGED target
  BY DEF Everything, IInv, RequestInv, Targeted, Service!Calls, PublishRequest,
     Service!Dispatched, Service!GoOn, Service!Answer
<1>2. PICK p \in Partitions : Consumer!Publish(p, target[r])
  BY DEF PublishRequest
<1>3. PICK u \in Urls : u = target[r] /\ u = target'[r]
  BY <1>1
<1>4. \E m \in JobsOf(u)' : Due(m)'
  BY <1>2, <1>3, NewIsDue
<1> QED BY <1>1, <1>3, <1>4 DEF JobsOf

\* Whatever step fails the record of a request that is about to read it, others failed.
LEMMA FailedByOthers ==
    ASSUME Everything, Answered, Blamed, [Next]_vars, NEW r \in Requests,
           step[r] = "reread", Store!StatusOf(target[r])' = "failed"
    PROVE  OthersFail(r)'
<1>1. target'[r] = target[r]
  BY StaysAtReread
<1>2. CASE Store!StatusOf(target[r]) = "failed"
  BY <1>1, <1>2, OthersFailKept DEF Blamed
<1>3. CASE Store!StatusOf(target[r]) # "failed"
  <2>1. ASSUME NEW q \in Requests, RequestStep(q)
        PROVE  OthersFail(r)'
    BY <1>1, <1>3, <2>1, RequestAnswers422
  <2>2. ASSUME NEW w \in Workers, WorkerStep(w)
        PROVE  OthersFail(r)'
    <3>1. target[r] \in Urls
      BY DEF Everything, IInv, RequestInv, Targeted, Service!Calls
    <3>2. PICK u \in Urls : u = target[r] /\ u = target'[r]
      BY <1>1, <3>1
    <3>3. Store!StatusOf(u) # "failed" /\ Store!StatusOf(u)' = "failed"
      BY <1>3, <3>2 DEF Store!StatusOf
    <3>4. JobsOf(u)' # {}
      BY <2>2, <3>3, WorkerHasJob
    <3> QED BY <3>2, <3>4 DEF OthersFail, JobsOf
  <2>3. CASE ApiCrash \/ GroupStep \/ UNCHANGED vars
    <3>1. UNCHANGED records
      BY <2>3 DEF ApiCrash, Service!ApiCrash, GroupStep, vars
    <3> QED BY <1>1, <1>3, <3>1 DEF Store!StatusOf
  <2> QED BY <2>1, <2>2, <2>3 DEF Next
<1> QED BY <1>2, <1>3

LEMMA BlamedKept ==
    ASSUME Everything, Answered, Blamed, [Next]_vars
    PROVE  Blamed'
<1> SUFFICES ASSUME NEW r \in Requests, step'[r] = "reread",
                    Store!StatusOf(target[r])' = "failed"
             PROVE  OthersFail(r)'
  BY DEF Blamed
<1>1. CASE step[r] = "reread"
  BY <1>1, FailedByOthers
<1>2. CASE Service!SaveReady(r)
  <2>1. target[r] \in Urls /\ UNCHANGED target
    BY <1>2 DEF Everything, IInv, RequestInv, Targeted, Service!Calls, Service!SaveReady,
       Service!GoOn
  <2>2. PICK u \in Urls : u = target[r] /\ u = target'[r]
    BY <2>1
  <2>3. Store!UpdateReady(u)
    BY <1>2, <2>2 DEF Service!SaveReady, Service!UpdateReady, Store!UpdateReady
  <2>4. records[u] # Absent
    BY <1>2, <2>2 DEF Everything, IInv, RequestInv, Submitted, LaterCalls,
       Service!SaveReady
  <2>5. Store!StatusOf(u)' # "failed"
    BY <2>3, <2>4, ReadyWritten
  <2> QED BY <2>2, <2>5 DEF Store!StatusOf
<1>3. CASE PublishRequest(r)
  BY <1>3, PublishedIsJob DEF OthersFail
<1> QED BY <1>1, <1>2, <1>3, ComesToReread

-----------------------------------------------------------------------------
(* The answers *)

\* An answer is new, or the one that was given before.
LEMMA NewAnswer ==
    ASSUME Everything, [Next]_vars, NEW r \in Requests, ~UNCHANGED reply[r]
    PROVE  /\ step'[r] = "done" /\ target'[r] = target[r]
           /\ reply'[r].code = 201 =>
                 /\ Service!Reread(r)
                 /\ reply'[r].shows = Service!StatusOf(target[r])
                 /\ Service!StatusOf(target[r]) \notin {"pending", "fetching"}
           /\ reply'[r].code = 202 =>
                 \/ Service!Find(r) /\ found'[r] \in {"pending", "fetching"}
                 \/ PublishRequest(r)
                 \/ Service!Reread(r)
<1> USE DEF Everything, IInv, RequestInv, Service!ServiceTypeOK
<1>1. PICK q \in Requests : RequestStep(q)
  <2>1. ASSUME NEW w \in Workers, WorkerStep(w)
        PROVE  UNCHANGED reply
    BY <2>1, WorkerWrites DEF requests
  <2>2. GroupStep \/ ApiCrash \/ UNCHANGED vars => UNCHANGED reply
    BY DEF GroupStep, ApiCrash, Service!ApiCrash, vars, requests
  <2> QED BY <2>1, <2>2 DEF Next
<1>2. ASSUME NEW code, NEW shows, Service!Answer(q, code, shows)
      PROVE  /\ q = r /\ step'[r] = "done" /\ target'[r] = target[r]
             /\ reply'[r].code = code /\ reply'[r].shows = shows
  BY <1>2 DEF Service!Answer
<1>3. CASE Service!Reread(q)
  BY <1>2, <1>3 DEF Service!Reread, Service!RecordCode
<1>4. CASE \/ Service!FindFails(q) \/ Service!UpsertFails(q) \/ Service!SaveFailed(q)
           \/ Service!SaveReadyFails(q) \/ Service!RereadFails(q) \/ PublishFails(q)
           \/ Service!Reject(q)
  BY <1>2, <1>4 DEF Service!FindFails, Service!UpsertFails, Service!SaveFailed,
     Service!SaveReadyFails, Service!RereadFails, PublishFails, Service!DispatchFails,
     Service!Reject, Service!GiveUp
<1>5. CASE Service!Find(q) \/ PublishRequest(q)
  BY <1>2, <1>5 DEF Service!Find, PublishRequest, Service!Dispatched, Service!GoOn
<1>6. CASE \/ Service!Upsert(q) \/ Service!Mark(q) \/ Service!InlineFetch(q)
           \/ Service!SaveReady(q) \/ Service!Arrive(q) \/ Service!Cancel(q)
           \/ WriterSends(q)
  BY <1>6 DEF Service!Upsert, Service!Mark, Service!InlineFetch, Service!SaveReady,
     Service!Arrive, Service!Cancel, WriterSends, requests, Service!GoOn
<1> QED
  BY <1>1, <1>3, <1>4, <1>5, <1>6
     DEF RequestStep, ApiStep, Service!StoreStep, Service!ClientStep

LEMMA AnsweredKept ==
    ASSUME Everything, Answered, [Next]_vars
    PROVE  Answered'
<1> SUFFICES ASSUME NEW r \in Requests, reply'[r].code # 0
             PROVE  step'[r] = "done"
  BY DEF Answered
<1>1. CASE UNCHANGED reply[r]
  BY <1>1, EndedKept DEF Answered, Everything
<1> QED BY <1>1, NewAnswer

LEMMA CreatedKept ==
    ASSUME Everything, Answered, Blamed, CreatedShowsResult, [Next]_vars
    PROVE  CreatedShowsResult'
<1> SUFFICES ASSUME NEW r \in Requests, reply'[r].code = 201
             PROVE  \/ reply'[r].shows = "ready"
                    \/ reply'[r].shows = "failed" /\ OthersFail(r)'
  BY DEF CreatedShowsResult
<1>1. CASE UNCHANGED reply[r]
  <2>1. step[r] = "done"
    BY <1>1 DEF Answered
  <2>2. target'[r] = target[r]
    BY <2>1, EndedKept DEF Everything
  <2> QED BY <1>1, <2>2, OthersFailKept DEF CreatedShowsResult
<1>2. CASE ~UNCHANGED reply[r]
  <2>1. /\ Service!Reread(r) /\ target'[r] = target[r]
        /\ reply'[r].shows = Service!StatusOf(target[r])
        /\ Service!StatusOf(target[r]) \notin {"pending", "fetching"}
    BY <1>2, NewAnswer
  <2>2. Service!StatusOf(target[r]) \in {"ready", "failed"}
    <3>1. target[r] \in Urls /\ records[target[r]] # Absent
      BY <2>1 DEF Everything, IInv, RequestInv, Targeted, Submitted, LaterCalls,
         Service!Calls, Service!Reread
    <3> QED BY <2>1, <3>1, StatusType DEF Everything, IInv, Service!Statuses
  <2>3. CASE Service!StatusOf(target[r]) = "failed"
    <3>1. OthersFail(r)
      BY <2>1, <2>3 DEF Blamed, Service!Reread, Service!StatusOf, Store!StatusOf
    <3> QED BY <2>1, <2>3, <3>1, OthersFailKept
  <2> QED BY <2>1, <2>2, <2>3
<1> QED BY <1>1, <1>2

\* A 201 shows a ready record, or a failed one when somebody else failed it
\* (SubmitURL, RecordCode).
THEOREM AnswersShowResults == Spec => []CreatedShowsResult
<1> DEFINE Honest == Answered /\ Blamed /\ CreatedShowsResult
<1>1. Init => Honest
  BY DEF Init, Service!ServiceInit, Service!NoReply, Answered, Blamed,
     CreatedShowsResult
<1>2. Everything /\ Honest /\ [Next]_vars => Honest'
  BY AnsweredKept, BlamedKept, CreatedKept
<1>3. Honest => CreatedShowsResult
  OBVIOUS
<1> HIDE DEF Honest
<1> QED BY <1>1, <1>2, <1>3, Throughout, PTL DEF Spec

-----------------------------------------------------------------------------
(* The answers 202 *)

\* r is in a mode that queues its URL.
Queues(r) == op[r] = "get" \/ AsyncFetchOnly

InlineCalls == {"mark", "fetch", "saveFailed", "saveReady"}

\* Such a request fetches nothing itself, and reads its record back only when its
\* message is in the topic.
Routed ==
    \A r \in Requests :
        /\ step[r] \in InlineCalls => ~Queues(r)
        /\ step[r] = "reread" /\ Queues(r) => JobsOf(target[r]) # {}

LEMMA ModeKept ==
    ASSUME [Next]_vars, NEW r
    PROVE  Queues(r)' <=> Queues(r)
<1>1. UNCHANGED op
  <2>1. ASSUME NEW q \in Requests, RequestStep(q)
        PROVE  UNCHANGED op
    <3> USE DEF Service!GoOn, Service!Answer, Service!GiveUp
    <3>1. Service!StoreStep(q) => UNCHANGED op
      BY StoreStepEnds
    <3> QED
      BY <2>1, <3>1 DEF RequestStep, ApiStep, PublishRequest, PublishFails, WriterSends,
         requests, Service!ClientStep, Service!Arrive, Service!Reject, Service!Cancel,
         Service!Dispatched, Service!DispatchFails
  <2>2. ASSUME NEW w \in Workers, WorkerStep(w)
        PROVE  UNCHANGED op
    BY <2>2, WorkerWrites DEF requests
  <2> QED
    BY <2>1, <2>2 DEF Next, ApiCrash, Service!ApiCrash, GroupStep, vars, requests
<1> QED BY <1>1 DEF Queues

\* The first read is remembered.
LEMMA FoundKept ==
    ASSUME Everything, [Next]_vars, NEW r \in Requests, ~UNCHANGED found[r]
    PROVE  Service!Find(r)
<1> USE DEF Everything, IInv, RequestInv, Service!ServiceTypeOK
<1>1. ASSUME NEW q \in Requests, RequestStep(q)
      PROVE  Service!Find(r)
  <2> USE DEF Service!GoOn, Service!GiveUp
  <2>1. CASE Service!StoreStep(q)
    <3>1. CASE Service!Find(q)
      BY <3>1 DEF Service!Find
    <3>2. CASE ~Service!Find(q)
      BY <2>1, <3>2 DEF Service!StoreStep, Service!FindFails, Service!Upsert,
         Service!UpsertFails, Service!Mark, Service!InlineFetch, Service!SaveFailed,
         Service!SaveReady, Service!SaveReadyFails, Service!Reread, Service!RereadFails
    <3> QED BY <3>1, <3>2
  <2>2. CASE ~Service!StoreStep(q)
    BY <1>1, <2>2 DEF RequestStep, ApiStep, PublishRequest, PublishFails, WriterSends,
       requests, Service!ClientStep, Service!Arrive, Service!Reject, Service!Cancel,
       Service!Dispatched, Service!DispatchFails
  <2> QED BY <2>1, <2>2
<1>2. ASSUME NEW w \in Workers, WorkerStep(w)
      PROVE  UNCHANGED found
  BY <1>2, WorkerWrites DEF requests
<1>3. GroupStep \/ ApiCrash \/ UNCHANGED vars => UNCHANGED found
  BY DEF GroupStep, ApiCrash, Service!ApiCrash, vars, requests
<1> QED BY <1>1, <1>2, <1>3 DEF Next

\* A request fetches inline when AfterUpsert says so, and goes on with that.
LEMMA ComesInline ==
    ASSUME Everything, [Next]_vars, NEW r \in Requests,
           step[r] \notin InlineCalls, step'[r] \in InlineCalls
    PROVE  ~Queues(r)
<1> USE DEF Everything, IInv, RequestInv, Service!ServiceTypeOK, InlineCalls
<1>1. ASSUME NEW q \in Requests, RequestStep(q)
      PROVE  ~Queues(r)
  <2>1. q = r
    BY <1>1, OneRequest
  <2>2. CASE Service!Upsert(r)
    BY <2>2 DEF Service!Upsert, Service!AfterUpsert, Service!GoOn, Queues
  <2>3. CASE \/ Service!Find(r) \/ Service!FindFails(r) \/ Service!UpsertFails(r)
             \/ Service!Reread(r) \/ Service!RereadFails(r)
    <3>1. step'[r] = "upsert" \/ \E code, shows : Service!Answer(r, code, shows)
      BY <2>3 DEF Service!Find, Service!FindFails, Service!UpsertFails, Service!Reread,
         Service!RereadFails, Service!GiveUp
    <3> QED BY <3>1 DEF Service!Answer
  <2>4. ~\/ Service!Mark(r) \/ Service!InlineFetch(r) \/ Service!SaveFailed(r)
         \/ Service!SaveReady(r) \/ Service!SaveReadyFails(r)
    BY DEF Service!Mark, Service!InlineFetch, Service!SaveFailed, Service!SaveReady,
       Service!SaveReadyFails
  <2>5. CASE Service!ClientStep(r) \/ PublishRequest(r) \/ PublishFails(r)
             \/ WriterSends(r)
    BY <2>5 DEF Service!ClientStep, Service!Arrive, Service!Reject, Service!Cancel,
       PublishRequest, PublishFails, WriterSends, requests, Service!Dispatched,
       Service!DispatchFails, Service!GoOn, Service!Answer, Service!GiveUp
  <2> QED
    BY <1>1, <2>1, <2>2, <2>3, <2>4, <2>5 DEF RequestStep, ApiStep, Service!StoreStep
<1>2. ASSUME NEW w \in Workers, WorkerStep(w)
      PROVE  UNCHANGED step
  BY <1>2, WorkerWrites DEF requests
<1>3. GroupStep \/ UNCHANGED vars => UNCHANGED step
  BY DEF GroupStep, vars, requests
<1>4. ApiCrash => step'[r] \notin InlineCalls
  BY DEF ApiCrash, Service!ApiCrash, Service!Active, Service!Calls
<1> QED BY <1>1, <1>2, <1>3, <1>4 DEF Next

\* The messages of a URL stay in the topic.
LEMMA JobsStay ==
    ASSUME Everything, [Next]_vars, NEW r, target'[r] = target[r],
           JobsOf(target[r]) # {}
    PROVE  JobsOf(target[r])' # {}
<1>1. JobsOf(target[r]) \subseteq JobsOf(target[r])'
  BY StepIsLoopStep, JobsKept DEF Everything, JobsOf
<1> QED BY <1>1

LEMMA RoutedKept ==
    ASSUME Everything, Routed, [Next]_vars
    PROVE  Routed'
<1> SUFFICES ASSUME NEW r \in Requests
             PROVE  /\ step'[r] \in InlineCalls => ~Queues(r)
                    /\ step'[r] = "reread" /\ Queues(r) => JobsOf(target[r])' # {}
  BY ModeKept DEF Routed, InlineCalls
<1>1. step'[r] \in InlineCalls => ~Queues(r)
  BY ComesInline DEF Routed
<1>2. ASSUME step'[r] = "reread", Queues(r)
      PROVE  JobsOf(target[r])' # {}
  <2>1. CASE step[r] = "reread"
    BY <1>2, <2>1, StaysAtReread, JobsStay DEF Routed
  <2>2. CASE step[r] # "reread"
    <3>1. ~Service!SaveReady(r)
      BY <1>2 DEF Routed, InlineCalls, Service!SaveReady
    <3> QED BY <1>2, <2>2, <3>1, ComesToReread, PublishedIsJob
  <2> QED BY <2>1, <2>2
<1> QED BY <1>1, <1>2

LEMMA AcceptedKept ==
    ASSUME Everything, Answered, Routed, AcceptedWasQueued, [Next]_vars
    PROVE  AcceptedWasQueued'
<1> SUFFICES ASSUME NEW r \in Requests, reply'[r].code = 202,
                    found'[r] \in {Absent, "failed"}, Queues(r)
             PROVE  JobsOf(target[r])' # {}
  BY ModeKept DEF AcceptedWasQueued, Queues
<1>1. CASE UNCHANGED reply[r]
  <2>1. step[r] = "done"
    BY <1>1 DEF Answered
  <2>2. UNCHANGED target[r]
    BY <2>1, EndedKept DEF Everything
  <2>3. UNCHANGED found[r]
    BY <2>1, FoundKept DEF Service!Find
  <2> QED BY <1>1, <2>2, <2>3, JobsStay DEF AcceptedWasQueued, Queues
<1>2. CASE ~UNCHANGED reply[r]
  <2>1. ~(found'[r] \in {"pending", "fetching"})
    BY AbsentAssumption DEF Store!Statuses
  <2>2. Service!Reread(r) => JobsOf(target[r]) # {}
    BY DEF Routed, Service!Reread
  <2> QED BY <1>2, <2>1, <2>2, NewAnswer, PublishedIsJob, JobsStay
<1> QED BY <1>1, <1>2

\* Who submits a URL in a mode that queues it and answers 202 has put a message of it
\* into the topic (dispatchAsyncFetch, GetMetadata).
THEOREM AcceptedRequestsAreQueued == Spec => []AcceptedWasQueued
<1> DEFINE Queued == Answered /\ Routed /\ AcceptedWasQueued
<1>1. Init => Queued
  BY DEF Init, Service!ServiceInit, Service!NoReply, Answered, Routed, InlineCalls,
     AcceptedWasQueued
<1>2. Everything /\ Queued /\ [Next]_vars => Queued'
  BY AnsweredKept, RoutedKept, AcceptedKept
<1>3. Queued => AcceptedWasQueued
  OBVIOUS
<1> HIDE DEF Queued
<1> QED BY <1>1, <1>2, <1>3, Throughout, PTL DEF Spec

-----------------------------------------------------------------------------
(* One message for each request that hands its URL over *)

\* A request past its first read missed the record, or found it failed.
Missed ==
    \A r \in Requests :
        step[r] \in {"upsert"} \cup LaterCalls => found[r] \in {Absent, "failed"}

DispatchQueues == \A r \in Requests : step[r] = "dispatch" => Queues(r)

Undisturbed == "client" \notin Faults => \A r \in Requests : ~cancelled[r]

Sent(u) == {r \in Requests : target[r] = u /\ HandedOver(r)}

\* The counts agree, and are counts of finite sets.
Counted(u) ==
    /\ IsFiniteSet(JobsOf(u)) /\ IsFiniteSet(Sent(u))
    /\ Cardinality(JobsOf(u)) = Cardinality(Sent(u))

AllCounted == Faults \cap {"publish", "client"} = {} => \A u \in Urls : Counted(u)

\* How a request comes to its Upsert, and behind it.
LEMMA ComesToWrite ==
    ASSUME Everything, [Next]_vars, NEW r \in Requests,
           step'[r] \in {"upsert"} \cup LaterCalls, ~UNCHANGED step[r]
    PROVE  \/ Service!Find(r) /\ step'[r] = "upsert"
           \/ step[r] \in {"upsert"} \cup LaterCalls
<1> USE DEF Everything, IInv, RequestInv, Service!ServiceTypeOK
<1>1. ASSUME NEW q \in Requests, RequestStep(q)
      PROVE  \/ Service!Find(r) /\ step'[r] = "upsert"
             \/ step[r] \in {"upsert"} \cup LaterCalls
  <2>1. q = r
    BY <1>1, OneRequest
  <2>2. CASE Service!Find(r)
    BY <2>2 DEF Service!Find, Service!Answer, LaterCalls
  <2>3. CASE \/ Service!FindFails(r) \/ Service!Reject(r) \/ Service!Arrive(r)
             \/ Service!Cancel(r)
    BY <2>3 DEF Service!FindFails, Service!GiveUp, Service!Answer, Service!Reject,
       Service!Arrive, Service!Cancel, LaterCalls
  <2>4. CASE \/ Service!Upsert(r) \/ Service!UpsertFails(r) \/ Service!Mark(r)
             \/ Service!InlineFetch(r) \/ Service!SaveFailed(r) \/ Service!SaveReady(r)
             \/ Service!SaveReadyFails(r) \/ Service!Reread(r) \/ Service!RereadFails(r)
             \/ PublishRequest(r) \/ PublishFails(r)
    BY <2>4 DEF Service!Upsert, Service!UpsertFails, Service!Mark, Service!InlineFetch,
       Service!SaveFailed, Service!SaveReady, Service!SaveReadyFails, Service!Reread,
       Service!RereadFails, PublishRequest, PublishFails, Service!Dispatched,
       Service!DispatchFails, LaterCalls
  <2>5. CASE WriterSends(r)
    BY <2>5 DEF WriterSends, requests
  <2> QED
    BY <1>1, <2>1, <2>2, <2>3, <2>4, <2>5
       DEF RequestStep, ApiStep, Service!StoreStep, Service!ClientStep
<1>2. ASSUME NEW w \in Workers, WorkerStep(w)
      PROVE  UNCHANGED step
  BY <1>2, WorkerWrites DEF requests
<1>3. GroupStep \/ UNCHANGED vars => UNCHANGED step
  BY DEF GroupStep, vars, requests
<1>4. ApiCrash => step'[r] \notin {"upsert"} \cup LaterCalls \/ UNCHANGED step[r]
  BY DEF ApiCrash, Service!ApiCrash, LaterCalls
<1> QED BY <1>1, <1>2, <1>3, <1>4 DEF Next

LEMMA MissedKept ==
    ASSUME Everything, Missed, [Next]_vars
    PROVE  Missed'
<1> SUFFICES ASSUME NEW r \in Requests, step'[r] \in {"upsert"} \cup LaterCalls
             PROVE  found'[r] \in {Absent, "failed"}
  BY DEF Missed, LaterCalls
<1>1. CASE Service!Find(r)
  <2>1. step'[r] = "upsert"
    BY <1>1, ComesToWrite DEF Service!Find, LaterCalls
  <2> QED
    BY <1>1, <2>1 DEF Service!Find, Service!Answer, Everything, IInv, RequestInv,
       Service!ServiceTypeOK
<1>2. CASE ~Service!Find(r)
  <2>1. UNCHANGED found[r]
    BY <1>2, FoundKept
  <2>2. step[r] \in {"upsert"} \cup LaterCalls
    BY <1>2, ComesToWrite
  <2> QED BY <2>1, <2>2 DEF Missed
<1> QED BY <1>1, <1>2

\* AfterUpsert sends a request to the topic when its mode queues.
LEMMA DispatchQueuesKept ==
    ASSUME Everything, DispatchQueues, [Next]_vars
    PROVE  DispatchQueues'
<1> SUFFICES ASSUME NEW r \in Requests, step'[r] = "dispatch", step[r] # "dispatch"
             PROVE  Queues(r)
  BY ModeKept DEF DispatchQueues
<1> USE DEF Everything, IInv, RequestInv, Service!ServiceTypeOK
<1>1. ASSUME NEW q \in Requests, RequestStep(q)
      PROVE  Queues(r)
  <2>1. q = r
    BY <1>1, OneRequest
  <2>2. CASE Service!Upsert(r)
    BY <2>2 DEF Service!Upsert, Service!AfterUpsert, Service!GoOn, Queues
  <2>3. CASE \/ Service!Find(r) \/ Service!FindFails(r) \/ Service!UpsertFails(r)
             \/ Service!SaveFailed(r) \/ Service!SaveReadyFails(r)
             \/ Service!Reread(r) \/ Service!RereadFails(r)
    <3>1. step'[r] = "upsert" \/ \E code, shows : Service!Answer(r, code, shows)
      BY <2>3 DEF Service!Find, Service!FindFails, Service!UpsertFails,
         Service!SaveFailed, Service!SaveReadyFails, Service!Reread,
         Service!RereadFails, Service!GiveUp
    <3> QED BY <3>1 DEF Service!Answer
  <2>4. CASE Service!Mark(r) \/ Service!InlineFetch(r) \/ Service!SaveReady(r)
    BY <2>4 DEF Service!Mark, Service!InlineFetch, Service!SaveReady, Service!GoOn
  <2>5. CASE Service!ClientStep(r) \/ PublishRequest(r) \/ PublishFails(r)
             \/ WriterSends(r)
    BY <2>5 DEF Service!ClientStep, Service!Arrive, Service!Reject, Service!Cancel,
       PublishRequest, PublishFails, WriterSends, requests, Service!Dispatched,
       Service!DispatchFails, Service!GoOn, Service!Answer, Service!GiveUp
  <2> QED BY <1>1, <2>1, <2>2, <2>3, <2>4, <2>5 DEF RequestStep, ApiStep, Service!StoreStep
<1>2. ASSUME NEW w \in Workers, WorkerStep(w)
      PROVE  UNCHANGED step
  BY <1>2, WorkerWrites DEF requests
<1>3. GroupStep \/ UNCHANGED vars => UNCHANGED step
  BY DEF GroupStep, vars, requests
<1>4. ApiCrash => step'[r] # "dispatch"
  BY DEF ApiCrash, Service!ApiCrash, Service!Active, Service!Calls
<1> QED BY <1>1, <1>2, <1>3, <1>4 DEF Next

LEMMA UndisturbedKept ==
    ASSUME Undisturbed, [Next]_vars
    PROVE  Undisturbed'
<1> SUFFICES ASSUME "client" \notin Faults
             PROVE  UNCHANGED cancelled
  BY DEF Undisturbed
<1>1. ASSUME NEW q \in Requests, RequestStep(q)
      PROVE  UNCHANGED cancelled
  <2>1. Service!StoreStep(q) => UNCHANGED cancelled
    BY StoreStepFrame
  <2> QED
    BY <1>1, <2>1 DEF RequestStep, ApiStep, PublishRequest, PublishFails, WriterSends,
       requests, Service!ClientStep, Service!Arrive, Service!Reject, Service!Cancel,
       Service!Dispatched, Service!DispatchFails, Service!GoOn, Service!Answer,
       Service!GiveUp
<1>2. ASSUME NEW w \in Workers, WorkerStep(w)
      PROVE  UNCHANGED cancelled
  BY <1>2, WorkerWrites DEF requests
<1>3. GroupStep \/ ApiCrash \/ UNCHANGED vars => UNCHANGED cancelled
  BY DEF GroupStep, ApiCrash, Service!ApiCrash, vars, requests
<1> QED BY <1>1, <1>2, <1>3 DEF Next

\* A request breaks at the call it is making.
LEMMA BreaksAtCall ==
    ASSUME Everything, [Next]_vars, NEW r \in Requests, ~UNCHANGED brokenAt[r]
    PROVE  brokenAt'[r] = step[r] /\ target'[r] = target[r]
<1> USE DEF Everything, IInv, RequestInv, Service!ServiceTypeOK
<1>1. ASSUME NEW q \in Requests, RequestStep(q)
      PROVE  brokenAt'[r] = step[r] /\ target'[r] = target[r]
  <2>1. CASE Service!StoreStep(q)
    BY <2>1, StoreStepFrame
  <2>2. CASE ~Service!StoreStep(q)
    BY <1>1, <2>2 DEF RequestStep, ApiStep, PublishRequest, PublishFails, WriterSends,
       requests, Service!ClientStep, Service!Arrive, Service!Reject, Service!Cancel,
       Service!Dispatched, Service!DispatchFails, Service!GoOn, Service!Answer,
       Service!GiveUp
  <2> QED BY <2>1, <2>2
<1>2. ASSUME NEW w \in Workers, WorkerStep(w)
      PROVE  UNCHANGED brokenAt
  BY <1>2, WorkerWrites DEF requests
<1>3. GroupStep \/ UNCHANGED vars => UNCHANGED brokenAt
  BY DEF GroupStep, vars, requests
<1>4. CASE ApiCrash
  BY <1>4 DEF ApiCrash, Service!ApiCrash
<1> QED BY <1>1, <1>2, <1>3, <1>4 DEF Next

\* A request leaves its last read with an answer, or broken there.
LEMMA LeavesReread ==
    ASSUME Everything, [Next]_vars, NEW r \in Requests,
           step[r] = "reread", step'[r] # "reread"
    PROVE  reply'[r].code \in {201, 202} \/ brokenAt'[r] = "reread"
<1> USE DEF Everything, IInv, RequestInv, Service!ServiceTypeOK
<1>1. ASSUME NEW q \in Requests, RequestStep(q)
      PROVE  reply'[r].code \in {201, 202} \/ brokenAt'[r] = "reread"
  <2>1. q = r
    BY <1>1, OneRequest
  <2>2. Service!Reread(r) \/ Service!RereadFails(r) \/ Service!Cancel(r)
    BY <1>1, <2>1
       DEF RequestStep, ApiStep, PublishRequest, PublishFails, WriterSends,
           Service!StoreStep, Service!Find, Service!FindFails, Service!Upsert,
           Service!UpsertFails, Service!Mark, Service!InlineFetch, Service!SaveFailed,
           Service!SaveReady, Service!SaveReadyFails, Service!ClientStep,
           Service!Arrive, Service!Reject, Service!Dispatched, Service!DispatchFails
  <2>3. Service!Reread(r) => reply'[r].code \in {201, 202}
    BY DEF Service!Reread, Service!Answer, Service!RecordCode
  <2>4. Service!RereadFails(r) => brokenAt'[r] = "reread"
    BY DEF Service!RereadFails, Service!GiveUp
  <2>5. ~Service!Cancel(r)
    BY DEF Service!Cancel
  <2> QED BY <2>2, <2>3, <2>4, <2>5
<1>2. ASSUME NEW w \in Workers, WorkerStep(w)
      PROVE  UNCHANGED step
  BY <1>2, WorkerWrites DEF requests
<1>3. GroupStep \/ UNCHANGED vars => UNCHANGED step
  BY DEF GroupStep, vars, requests
<1>4. ApiCrash => brokenAt'[r] = "reread"
  BY DEF ApiCrash, Service!ApiCrash, Service!Active, Service!Calls
<1> QED BY <1>1, <1>2, <1>3, <1>4 DEF Next

\* What a request has handed over stays handed over, with the same URL.
LEMMA HandedOverKept ==
    ASSUME Everything, Answered, Missed, [Next]_vars, NEW r \in Requests, HandedOver(r)
    PROVE  HandedOver(r)' /\ target'[r] = target[r]
<1> USE DEF HandedOver
<1>1. Queues(r) /\ Queues(r)'
  BY ModeKept DEF Queues
<1>2. CASE step[r] = "reread"
  <2>1. found'[r] \in {Absent, "failed"}
    BY <1>2, FoundKept DEF Missed, LaterCalls, Service!Find
  <2> QED BY <1>1, <1>2, <2>1, StaysAtReread, LeavesReread DEF Queues
<1>3. CASE brokenAt[r] = "reread"
  BY <1>1, <1>3, EndedKept DEF Everything, Over, Queues
<1>4. CASE reply[r].code \in {201, 202} /\ found[r] \in {Absent, "failed"}
  <2>1. step[r] = "done"
    BY <1>4 DEF Answered
  <2>2. UNCHANGED <<reply[r], target[r]>>
    BY <2>1, EndedKept DEF Everything
  <2>3. UNCHANGED found[r]
    BY <2>1, FoundKept DEF Service!Find
  <2> QED BY <1>1, <1>4, <2>2, <2>3 DEF Queues
<1> QED BY <1>2, <1>3, <1>4

\* Only Publish makes it so.
LEMMA HandsOver ==
    ASSUME Everything, Answered, Routed, [Next]_vars, NEW r \in Requests,
           ~HandedOver(r), HandedOver(r)'
    PROVE  PublishRequest(r)
<1> SUFFICES ASSUME ~PublishRequest(r)
             PROVE  FALSE
  OBVIOUS
<1> USE DEF HandedOver
<1>1. Queues(r) /\ step[r] # "reread" /\ brokenAt[r] # "reread"
  BY ModeKept DEF Queues
<1>2. CASE step'[r] = "reread"
  BY <1>1, <1>2, ComesToReread DEF Routed, InlineCalls, Service!SaveReady
<1>3. CASE brokenAt'[r] = "reread"
  BY <1>1, <1>3, BreaksAtCall
<1>4. CASE reply'[r].code \in {201, 202} /\ found'[r] \in {Absent, "failed"}
  <2>1. CASE UNCHANGED reply[r]
    <3>1. step[r] = "done"
      BY <1>4, <2>1 DEF Answered
    <3>2. UNCHANGED found[r]
      BY <3>1, FoundKept DEF Service!Find
    <3> QED BY <1>1, <1>4, <2>1, <3>2 DEF Queues
  <2>2. CASE ~UNCHANGED reply[r]
    <3>1. ~(found'[r] \in {"pending", "fetching"})
      BY <1>4, AbsentAssumption DEF Store!Statuses
    <3>2. ~Service!Reread(r)
      BY <1>1 DEF Service!Reread
    <3> QED BY <1>4, <2>2, <3>1, <3>2, NewAnswer
  <2> QED BY <2>1, <2>2
<1> QED BY <1>2, <1>3, <1>4

\* Publish does.
LEMMA PublishHandsOver ==
    ASSUME Everything, Answered, Missed, DispatchQueues, [Next]_vars,
           NEW r \in Requests, PublishRequest(r)
    PROVE  ~HandedOver(r) /\ HandedOver(r)' /\ target'[r] = target[r]
<1> USE DEF Everything, IInv, RequestInv, Service!ServiceTypeOK
<1>1. step[r] = "dispatch"
  BY DEF PublishRequest, Service!Dispatched
<1>2. ~HandedOver(r)
  BY <1>1 DEF HandedOver, Answered, Over
<1>3. Queues(r)' /\ found[r] \in {Absent, "failed"} /\ UNCHANGED target
  BY <1>1, ModeKept DEF DispatchQueues, Missed, LaterCalls, PublishRequest,
     Service!Dispatched, Service!GoOn, Service!Answer
<1>4. CASE op[r] = "get"
  <2>1. Service!Answer(r, 202, "pending") /\ UNCHANGED found
    BY <1>4 DEF PublishRequest, Service!Dispatched
  <2> QED BY <1>2, <1>3, <2>1 DEF Queues, HandedOver, Service!Answer
<1>5. CASE op[r] # "get"
  <2>1. Service!GoOn(r, "reread")
    BY <1>5 DEF PublishRequest, Service!Dispatched
  <2> QED BY <1>2, <1>3, <2>1 DEF Queues, HandedOver, Service!GoOn
<1> QED BY <1>4, <1>5

\* Publish makes one message, of its URL.
LEMMA PublishAddsOne ==
    ASSUME Everything, NEW p \in Partitions, NEW u \in Urls, Consumer!Publish(p, u)
    PROVE  \E m : \A v : /\ m \notin JobsOf(v)
                         /\ JobsOf(v)' = IF v = u THEN JobsOf(v) \cup {m} ELSE JobsOf(v)
<1> USE DEF Everything, TopicInv, Consumer!TypeOK
<1>1. PICK n \in Nat : n = Len(log[p])
  OBVIOUS
<1> DEFINE m == <<p, n>>
<1>2. /\ log[p] \in Seq(Consumer!Payloads)
      /\ log'[p] = Append(log[p], u)
      /\ n < MaxMessages
      /\ \A q \in Partitions : q # p => log'[q] = log[q]
  BY <1>1 DEF Consumer!Publish
<1>3. Place(m)' /\ Consumer!Payload(m)' = u /\ ~Place(m)
  <2>1. n \in 0 .. MaxMessages - 1 /\ n < Len(log'[p]) /\ log'[p][n + 1] = u
    BY <1>1, <1>2, BoundsAssumption
  <2> QED BY <1>1, <2>1 DEF Place, Consumer!Published, Consumer!Payload
<1>4. ASSUME NEW x, Place(x)', x # m
      PROVE  Place(x) /\ Consumer!Payload(x)' = Consumer!Payload(x)
  <2>1. PICK q \in Partitions, k \in 0 .. MaxMessages - 1 : x = <<q, k>>
    BY <1>4 DEF Place
  <2>2. k \in Nat /\ k < Len(log'[q])
    BY <1>4, <2>1, BoundsAssumption DEF Place, Consumer!Published
  <2>3. k < Len(log[q]) /\ log'[q][k + 1] = log[q][k + 1]
    <3>1. CASE q = p
      <4>1. k # n
        BY <1>4, <2>1, <3>1
      <4> QED BY <1>1, <1>2, <2>2, <3>1, <4>1
    <3>2. CASE q # p
      BY <1>2, <2>2, <3>2
    <3> QED BY <3>1, <3>2
  <2> QED BY <2>1, <2>3 DEF Place, Consumer!Published, Consumer!Payload
<1> HIDE DEF m
<1>5. ASSUME NEW v
      PROVE  /\ m \notin JobsOf(v)
             /\ JobsOf(v)' = IF v = u THEN JobsOf(v) \cup {m} ELSE JobsOf(v)
  <2>1. m \notin JobsOf(v)
    BY <1>3, JobsAre
  <2>2. JobsOf(v) \subseteq JobsOf(v)'
    BY JobsKept DEF Consumer!Next, Consumer!Payloads
  <2>3. m \in JobsOf(v)' <=> v = u
    BY <1>3, JobsAre
  <2>4. \A x : x \in JobsOf(v)' /\ x # m => x \in JobsOf(v)
    BY <1>4, JobsAre
  <2>5. CASE v = u
    BY <2>1, <2>2, <2>3, <2>4, <2>5
  <2>6. CASE v # u
    <3>1. JobsOf(v)' = JobsOf(v)
      BY <2>2, <2>3, <2>4, <2>6
    <3> QED BY <2>1, <2>6, <3>1
  <2> QED BY <2>5, <2>6
<1> QED BY <1>5

\* Without retries and clients that leave, only PublishRequest writes to the topic.
LEMMA OnlyRequestsPublish ==
    ASSUME Everything, Undisturbed, [Next]_vars, Faults \cap {"publish", "client"} = {},
           \A r \in Requests : ~PublishRequest(r)
    PROVE  UNCHANGED log
<1>1. ASSUME NEW r \in Requests, RequestStep(r)
      PROVE  UNCHANGED log
  <2>1. ~WriterSends(r)
    BY DEF WriterSends, Service!Fails, Undisturbed
  <2> QED BY <1>1, <2>1 DEF RequestStep, ApiStep, PublishFails, topic
<1>2. ASSUME NEW w \in Workers, WorkerStep(w)
      PROVE  UNCHANGED log
  BY <1>2, WorkerWrites
<1>3. GroupStep => UNCHANGED log
  BY DEF GroupStep, Consumer!GroupStep, Consumer!Rebalance, Consumer!SessionTimeout
<1>4. ApiCrash \/ UNCHANGED vars => UNCHANGED log
  BY DEF ApiCrash, vars, topic
<1> QED BY <1>1, <1>2, <1>3, <1>4 DEF Next

LEMMA CountedKept ==
    ASSUME Everything, Answered, Routed, Missed, DispatchQueues, Undisturbed,
           AllCounted, [Next]_vars
    PROVE  AllCounted'
<1> SUFFICES ASSUME Faults \cap {"publish", "client"} = {}, NEW u \in Urls
             PROVE  Counted(u)'
  BY DEF AllCounted
<1>1. Counted(u)
  BY DEF AllCounted
<1>2. Sent(u) \subseteq Sent(u)'
  BY HandedOverKept DEF Sent
<1>3. \A r \in Sent(u)' \ Sent(u) : PublishRequest(r)
  BY HandsOver, HandedOverKept DEF Sent
<1>4. CASE \A r \in Requests : ~PublishRequest(r)
  <2>1. Sent(u)' = Sent(u)
    BY <1>2, <1>3, <1>4 DEF Sent
  <2>2. JobsOf(u)' = JobsOf(u)
    BY <1>4, OnlyRequestsPublish DEF JobsOf, Consumer!Published, Consumer!Payload
  <2> QED BY <1>1, <2>1, <2>2 DEF Counted
<1>5. ASSUME NEW r \in Requests, PublishRequest(r)
      PROVE  Counted(u)'
  <2>1. ~HandedOver(r) /\ HandedOver(r)' /\ target'[r] = target[r]
    BY <1>5, PublishHandsOver
  <2>2. \A q \in Requests : PublishRequest(q) => q = r
    <3>1. ASSUME NEW q \in Requests, q # r, PublishRequest(q)
          PROVE  FALSE
      <4>1. step[q] = "dispatch" /\ step'[q] # "dispatch"
        BY <3>1 DEF PublishRequest, Service!Dispatched, Service!GoOn, Service!Answer,
           Everything, IInv, RequestInv, Service!ServiceTypeOK
      <4> QED BY <1>5, <3>1, <4>1, OneRequest DEF RequestStep
    <3> QED BY <3>1
  <2>3. target[r] \in Urls
    BY <1>5 DEF Everything, IInv, RequestInv, Targeted, Service!Calls, PublishRequest,
       Service!Dispatched
  <2>4. PICK m : \A v :
            /\ m \notin JobsOf(v)
            /\ JobsOf(v)' = IF v = target[r] THEN JobsOf(v) \cup {m} ELSE JobsOf(v)
    BY <1>5, <2>3, PublishAddsOne DEF PublishRequest
  <2>5. CASE target[r] = u
    <3>1. JobsOf(u)' = JobsOf(u) \cup {m} /\ m \notin JobsOf(u)
      BY <2>4, <2>5
    <3>2. Sent(u)' = Sent(u) \cup {r} /\ r \notin Sent(u)
      BY <1>2, <1>3, <2>1, <2>2, <2>5 DEF Sent
    <3>3. /\ IsFiniteSet(JobsOf(u) \cup {m}) /\ IsFiniteSet(Sent(u) \cup {r})
          /\ Cardinality(JobsOf(u) \cup {m}) = Cardinality(JobsOf(u)) + 1
          /\ Cardinality(Sent(u) \cup {r}) = Cardinality(Sent(u)) + 1
      BY <1>1, <3>1, <3>2, FS_AddElement DEF Counted
    <3> QED BY <1>1, <3>1, <3>2, <3>3 DEF Counted
  <2>6. CASE target[r] # u
    <3>1. JobsOf(u)' = JobsOf(u)
      BY <2>4, <2>6
    <3>2. Sent(u)' = Sent(u)
      BY <1>2, <1>3, <2>1, <2>2, <2>6 DEF Sent
    <3> QED BY <1>1, <3>1, <3>2 DEF Counted
  <2> QED BY <2>5, <2>6
<1> QED BY <1>4, <1>5

LEMMA NothingCounted ==
    ASSUME Init
    PROVE  Missed /\ DispatchQueues /\ Undisturbed /\ AllCounted
<1> USE DEF Init, Service!ServiceInit, Service!NoReply
<1>1. Missed /\ DispatchQueues /\ Undisturbed
  BY DEF Missed, LaterCalls, DispatchQueues, Undisturbed
<1>2. ASSUME NEW u \in Urls
      PROVE  JobsOf(u) = {} /\ Sent(u) = {}
  <2>1. \A p \in Partitions : Len(log[p]) = 0
    BY DEF Consumer!Init
  <2>2. JobsOf(u) = {}
    BY <2>1, BoundsAssumption DEF JobsOf, Consumer!Published
  <2> QED BY <2>2 DEF Sent, HandedOver
<1> QED BY <1>1, <1>2, FS_EmptySet DEF AllCounted, Counted

\* While the writer need not retry and clients wait, the topic has one message of a URL
\* for each request that handed it over (dispatchAsyncFetch, its two callers, Publish).
THEOREM MessagesAreQueuedOnce == Spec => []QueuedOnce
<1> DEFINE Counts == /\ Answered /\ Routed /\ Missed /\ DispatchQueues /\ Undisturbed
                     /\ AllCounted
<1>1. Init => Counts
  BY NothingCounted DEF Init, Service!ServiceInit, Service!NoReply, Answered, Routed,
     InlineCalls
<1>2. Everything /\ Counts /\ [Next]_vars => Counts'
  BY AnsweredKept, RoutedKept, MissedKept, DispatchQueuesKept, UndisturbedKept,
     CountedKept
<1>3. Counts => QueuedOnce
  BY DEF AllCounted, Counted, Sent, QueuedOnce
<1> HIDE DEF Counts
<1> QED BY <1>1, <1>2, <1>3, Throughout, PTL DEF Spec
=============================================================================
