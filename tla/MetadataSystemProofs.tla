------------------------ MODULE MetadataSystemProofs ------------------------
(***************************************************************************)
(* Proofs about MetadataSystem, for any number of URLs, requests, workers  *)
(* and partitions, any retries and bounds, and any kinds of failure.       *)
(*                                                                         *)
(* RecordsConsistent holds because every write of the collection keeps it, *)
(* whoever makes it and however stale what he read is.  That a message     *)
(* finds its record needs more: a request past its Upsert has one          *)
(* (Submitted), and a writer may still send a message when its request is  *)
(* over.                                                                   *)
(*                                                                         *)
(* The API and the handlers do to the topic what KafkaConsumer allows, so  *)
(* the theorems of KafkaConsumerProofs hold of the pipeline; Loop is the   *)
(* instance of that module they are taken from.                            *)
(***************************************************************************)
EXTENDS MetadataSystem, TLAPS

\* The calls of a request that come after its Upsert.
LaterCalls == {"dispatch", "mark", "fetch", "saveFailed", "saveReady", "reread"}

\* A request under way, or broken at a call, has a URL.
Targeted ==
    \A r \in Requests :
        /\ step[r] \in Service!Calls \/ brokenAt[r] \in Service!Calls => target[r] \in Urls
        /\ step[r] = "idle" => brokenAt[r] = "none"

\* Past its Upsert the URL has a record.
Submitted ==
    \A r \in Requests :
        step[r] \in LaterCalls \/ brokenAt[r] \in LaterCalls =>
            records[target[r]] # Absent

RequestInv == Service!ServiceTypeOK /\ Targeted /\ Submitted

LogOK == log \in [Partitions -> Seq(Urls)]

\* Every message in the topic has a record.
LogHasRecords ==
    \A p \in Partitions : \A i \in 1 .. Len(log[p]) : records[log[p][i]] # Absent

StoreInv == Store!StoreTypeOK /\ Store!RecordsConsistent

IInv ==
    /\ StoreInv
    /\ RequestInv
    /\ LogOK
    /\ LogHasRecords

-----------------------------------------------------------------------------
(* The collection *)

\* One write of the document of u.
Writes(u) ==
    \/ Store!UpsertPending(u)
    \/ \E s \in {"fetching", "failed"} : Store!UpdateStatus(u, s)
    \/ Store!UpdateReady(u)

\* What every step keeps of the collection.
Kept == StoreInv' /\ \A u \in Urls : records[u] # Absent => records'[u] # Absent

LEMMA Documents ==
    ASSUME NEW d \in Store!Record,
           NEW s \in Store!Statuses, NEW n \in Nat, NEW b \in BOOLEAN
    PROVE  /\ [d EXCEPT !.status = s, !.retryCount = n] \in Store!Record
           /\ [d EXCEPT !.status = s, !.retryCount = n].status = s
           /\ [d EXCEPT !.status = s, !.retryCount = n].retryCount = n
           /\ [d EXCEPT !.status = s, !.result = b] \in Store!Record
           /\ [d EXCEPT !.status = s, !.result = b].status = s
           /\ [d EXCEPT !.status = s, !.result = b].result = b
BY DEF Store!Record, Store!Statuses

LEMMA WriteKeeps ==
    ASSUME StoreInv, NEW u, Writes(u)
    PROVE  Kept
<1> USE AbsentAssumption
    DEF StoreInv, Store!StoreTypeOK, Store!RecordsConsistent, Store!StatusOf,
        Store!Record, Store!Statuses
<1>1. CASE u \notin Urls
  <2>1. records' = records
    <3>1. DOMAIN records = Urls /\ DOMAIN records' = Urls
      BY <1>1 DEF Writes, Store!UpsertPending, Store!UpdateStatus, Store!UpdateReady
    <3>2. \A v \in Urls : records'[v] = records[v]
      BY <1>1 DEF Writes, Store!UpsertPending, Store!UpdateStatus, Store!UpdateReady
    <3> QED
      BY <1>1, <3>1, <3>2
         DEF Writes, Store!UpsertPending, Store!UpdateStatus, Store!UpdateReady
  <2> QED BY <2>1 DEF Kept
<1>2. CASE u \in Urls
  <2>1. SUFFICES ASSUME NEW doc \in Store!Record,
                        records' = [records EXCEPT ![u] = doc],
                        doc.status = "ready" => doc.result,
                        doc.status = "failed" => doc.retryCount > 0,
                        doc.status = "pending" => ~doc.result /\ doc.retryCount = 0
                 PROVE  Kept
    <3>1. CASE Store!UpsertPending(u)
      <4> DEFINE doc == [status |-> "pending", result |-> FALSE, retryCount |-> 0]
      <4>1. doc \in Store!Record
        OBVIOUS
      <4>2. records' = [records EXCEPT ![u] = doc]
        BY <3>1 DEF Store!UpsertPending
      <4> HIDE DEF doc
      <4>3. doc.status = "pending" /\ ~doc.result /\ doc.retryCount = 0
        BY DEF doc
      <4> QED BY <2>1, <4>1, <4>2, <4>3
    <3>2. CASE records' = records
      BY <3>2 DEF Kept
    <3>3. CASE records[u] # Absent /\ records' # records
      <4>1. records[u] \in Store!Record
        BY <1>2, <3>3
      <4>2. ASSUME NEW s \in {"fetching", "failed"}, Store!UpdateStatus(u, s)
            PROVE  Kept
        <5> DEFINE n   == IF s = "failed" THEN records[u].retryCount + 1
                                          ELSE records[u].retryCount
                   doc == [records[u] EXCEPT !.status = s, !.retryCount = n]
        <5>1. records' = [records EXCEPT ![u] = doc]
          BY <1>2, <3>3, <4>1, <4>2 DEF Store!UpdateStatus
        <5>2. n \in Nat /\ (s = "failed" => n > 0)
          BY <4>1
        <5> HIDE DEF n
        <5>3. doc \in Store!Record /\ doc.status = s /\ doc.retryCount = n
          BY <4>1, <5>2, Documents
        <5> HIDE DEF doc
        <5> QED BY <2>1, <5>1, <5>2, <5>3
      <4>3. CASE Store!UpdateReady(u)
        <5> DEFINE doc == [records[u] EXCEPT !.status = "ready", !.result = TRUE]
        <5>1. records' = [records EXCEPT ![u] = doc]
          BY <1>2, <3>3, <4>1, <4>3 DEF Store!UpdateReady
        <5>2. doc \in Store!Record /\ doc.status = "ready" /\ doc.result
          BY <4>1, Documents
        <5> HIDE DEF doc
        <5> QED BY <2>1, <5>1, <5>2
      <4> QED BY <3>1, <3>3, <4>2, <4>3 DEF Writes
    <3> QED BY <3>1, <3>2, <3>3 DEF Writes, Store!UpdateStatus, Store!UpdateReady
  <2>2. records' \in [Urls -> Store!Record \cup {Absent}]
    BY <1>2, <2>1
  <2>3. doc # Absent
    BY <2>1
  <2>4. records'[u] = doc /\ \A v \in Urls : v # u => records'[v] = records[v]
    BY <1>2, <2>1
  <2> QED BY <2>1, <2>2, <2>3, <2>4 DEF Kept
<1> QED BY <1>1, <1>2

-----------------------------------------------------------------------------
(* Requests *)

LEMMA GoOnKeeps ==
    ASSUME RequestInv, Kept, NEW r \in Requests, step[r] \in Service!Calls,
           NEW next \in Service!Calls, Service!GoOn(r, next),
           next \in LaterCalls => records'[target[r]] # Absent
    PROVE  RequestInv'
<1> USE DEF RequestInv, Service!GoOn
<1>1. Service!ServiceTypeOK'
  BY DEF Service!ServiceTypeOK, Service!Steps
<1>2. Targeted'
  BY DEF Targeted, Service!ServiceTypeOK, Service!Calls
<1>3. Submitted'
  BY DEF Targeted, Submitted, Kept, Service!ServiceTypeOK, Service!Calls, LaterCalls
<1> QED BY <1>1, <1>2, <1>3

LEMMA AnswerKeeps ==
    ASSUME RequestInv, Kept, NEW r \in Requests,
           NEW code \in Service!Codes, NEW shows \in Service!Statuses \cup {"nothing"},
           Service!Answer(r, code, shows),
           found' \in [Requests -> Service!Statuses \cup {Absent}],
           \/ brokenAt' = brokenAt
           \/ step[r] \in Service!Calls /\ brokenAt' = [brokenAt EXCEPT ![r] = step[r]]
    PROVE  RequestInv'
<1> USE DEF RequestInv, Service!Answer
<1>1. Service!ServiceTypeOK'
  <2>1. [code |-> code, shows |-> shows] \in Service!Replies
    BY DEF Service!Replies
  <2> QED BY <2>1 DEF Service!ServiceTypeOK, Service!Steps
<1>2. Targeted'
  BY DEF Targeted, Service!ServiceTypeOK, Service!Calls
<1>3. Submitted'
  BY DEF Targeted, Submitted, Kept, Service!ServiceTypeOK, Service!Calls, LaterCalls
<1> QED BY <1>1, <1>2, <1>3

LEMMA GiveUpKeeps ==
    ASSUME RequestInv, Kept, NEW r \in Requests, step[r] \in Service!Calls,
           NEW code \in Service!Codes, Service!GiveUp(r, code)
    PROVE  RequestInv'
BY AnswerKeeps DEF Service!GiveUp, RequestInv, Service!ServiceTypeOK

\* The writes of the service are those of the collection.
LEMMA ServiceWrites ==
    ASSUME NEW u,
           \/ UNCHANGED records
           \/ Service!UpsertPending(u)
           \/ \E s \in {"fetching", "failed"} : Service!UpdateStatus(u, s)
           \/ Service!UpdateReady(u)
    PROVE  UNCHANGED records \/ Writes(u)
BY DEF Writes, Service!UpsertPending, Store!UpsertPending, Service!UpdateStatus,
       Store!UpdateStatus, Service!UpdateReady, Store!UpdateReady

LEMMA KeptOrWritten ==
    ASSUME StoreInv, NEW u, UNCHANGED records \/ Writes(u)
    PROVE  Kept
<1>1. CASE UNCHANGED records
  BY <1>1 DEF Kept, StoreInv, Store!StoreTypeOK, Store!RecordsConsistent, Store!StatusOf
<1> QED BY <1>1, WriteKeeps

LEMMA StatusType ==
    ASSUME StoreInv, NEW u \in Urls
    PROVE  /\ Service!StatusOf(u) \in Service!Statuses \cup {Absent}
           /\ records[u] # Absent => Service!StatusOf(u) \in Service!Statuses
BY DEF StoreInv, Store!StoreTypeOK, Store!Record, Store!Statuses, Service!StatusOf,
       Service!Statuses

\* What a request does between its arrival and its end.
LEMMA StoreStepKeeps ==
    ASSUME StoreInv, RequestInv, NEW r \in Requests, Service!StoreStep(r)
    PROVE  RequestInv' /\ Kept
<1> DEFINE u == target[r]
<1>1. step[r] \in Service!Calls /\ u \in Urls
  BY DEF RequestInv, Targeted, Service!StoreStep, Service!Find, Service!FindFails,
     Service!Upsert, Service!UpsertFails, Service!Mark, Service!InlineFetch,
     Service!SaveFailed, Service!SaveReady, Service!SaveReadyFails, Service!Reread,
     Service!RereadFails, Service!Calls
<1>2. step[r] \in LaterCalls => records[u] # Absent
  BY DEF RequestInv, Submitted
<1>3. Kept
  <2>1. UNCHANGED records \/ Writes(u)
    BY ServiceWrites DEF Service!StoreStep, Service!Find, Service!FindFails,
       Service!Upsert, Service!UpsertFails, Service!Mark, Service!InlineFetch,
       Service!SaveFailed, Service!SaveReady, Service!SaveReadyFails, Service!Reread,
       Service!RereadFails
  <2> QED BY <2>1, KeptOrWritten
<1>4. /\ Service!StatusOf(u) \in Service!Statuses \cup {Absent}
      /\ records[u] # Absent => Service!StatusOf(u) \in Service!Statuses
  BY <1>1, StatusType
<1>5. found \in [Requests -> Service!Statuses \cup {Absent}]
  BY DEF RequestInv, Service!ServiceTypeOK
<1> HIDE DEF u
<1>6. CASE Service!Find(r)
  <2>1. found' \in [Requests -> Service!Statuses \cup {Absent}]
    BY <1>4, <1>5, <1>6 DEF Service!Find, u
  <2>2. CASE \E code \in {200, 202} : \E shows \in Service!Statuses :
                Service!Answer(r, code, shows)
    BY <1>3, <1>6, <2>1, <2>2, AnswerKeeps DEF Service!Find, Service!Codes
  <2>3. CASE /\ step' = [step EXCEPT ![r] = "upsert"]
             /\ UNCHANGED <<op, target, cancelled, reply>>
    <3>1. Service!ServiceTypeOK'
      BY <1>6, <2>1, <2>3 DEF RequestInv, Service!ServiceTypeOK, Service!Steps,
         Service!Calls, Service!Find
    <3>2. Targeted'
      BY <1>6, <2>3 DEF RequestInv, Service!ServiceTypeOK, Targeted, Service!Calls,
         Service!Find
    <3>3. Submitted'
      BY <1>6, <2>3 DEF RequestInv, Service!ServiceTypeOK, Submitted, LaterCalls,
         Service!Find
    <3> QED BY <1>3, <3>1, <3>2, <3>3 DEF RequestInv
  <2> QED
    BY <1>4, <1>6, <2>2, <2>3 DEF Service!Find, Service!Statuses, u
<1>7. CASE Service!Upsert(r)
  <2>1. records'[u] # Absent
    <3> DEFINE doc == [status |-> "pending", result |-> FALSE, retryCount |-> 0]
    <3>1. doc \in Store!Record
      BY DEF Store!Record, Store!Statuses
    <3>2. records' = [records EXCEPT ![u] = doc]
      BY <1>7 DEF Service!Upsert, Service!UpsertPending, u
    <3> HIDE DEF doc
    <3> QED
      BY <1>1, <3>1, <3>2, AbsentAssumption DEF StoreInv, Store!StoreTypeOK
  <2>2. Service!AfterUpsert(r) \in Service!Calls
    BY DEF Service!AfterUpsert, Service!Calls
  <2> QED BY <1>1, <1>3, <1>7, <2>1, <2>2, GoOnKeeps DEF Service!Upsert, u
<1>8. CASE Service!Mark(r) \/ Service!InlineFetch(r) \/ Service!SaveReady(r)
  <2>1. records'[u] # Absent
    BY <1>1, <1>2, <1>3, <1>8 DEF Kept, LaterCalls, Service!Mark, Service!InlineFetch,
       Service!SaveReady
  <2>2. \E next \in Service!Calls : Service!GoOn(r, next)
    BY <1>8 DEF Service!Mark, Service!InlineFetch, Service!SaveReady, Service!Calls
  <2> QED BY <1>1, <1>3, <2>1, <2>2, GoOnKeeps DEF u
<1>9. CASE Service!SaveFailed(r)
  BY <1>1, <1>3, <1>5, <1>9, AnswerKeeps, GiveUpKeeps
     DEF Service!SaveFailed, Service!Codes
<1>10. CASE Service!Reread(r)
  <2>1. records[u] # Absent
    BY <1>2, <1>10 DEF Service!Reread, LaterCalls
  <2>2. Service!StatusOf(u) \in Service!Statuses
    BY <1>4, <2>1
  <2>3. Service!RecordCode(TRUE, Service!StatusOf(u)) \in Service!Codes
    BY DEF Service!RecordCode, Service!Codes
  <2>4. LET status == Service!StatusOf(u) IN
          Service!Answer(r, Service!RecordCode(TRUE, status), status)
    BY <1>10 DEF Service!Reread, u
  <2> QED BY <1>3, <1>5, <1>10, <2>2, <2>3, <2>4, AnswerKeeps DEF Service!Reread
<1>11. CASE \E code \in Service!Codes : Service!GiveUp(r, code)
  BY <1>1, <1>3, <1>11, GiveUpKeeps
<1>12. QED
  BY <1>3, <1>6, <1>7, <1>8, <1>9, <1>10, <1>11
     DEF Service!StoreStep, Service!FindFails, Service!UpsertFails,
         Service!SaveReadyFails, Service!RereadFails, Service!Codes

LEMMA ClientStepKeeps ==
    ASSUME StoreInv, RequestInv, NEW r \in Requests, Service!ClientStep(r)
    PROVE  RequestInv' /\ Kept
<1>1. Kept
  BY KeptOrWritten DEF Service!ClientStep, Service!Arrive, Service!Reject, Service!Cancel
<1>2. CASE Service!Arrive(r)
  <2>1. Service!ServiceTypeOK'
    BY <1>2 DEF RequestInv, Service!ServiceTypeOK, Service!Arrive, Service!Steps,
       Service!Calls
  <2>2. Targeted'
    BY <1>2 DEF RequestInv, Service!ServiceTypeOK, Targeted, Service!Arrive, Service!Calls
  <2>3. Submitted'
    BY <1>2 DEF RequestInv, Service!ServiceTypeOK, Targeted, Submitted, LaterCalls,
       Service!Arrive
  <2> QED BY <1>1, <2>1, <2>2, <2>3 DEF RequestInv
<1>3. CASE Service!Reject(r)
  BY <1>1, <1>3, AnswerKeeps
     DEF Service!Reject, Service!Codes, RequestInv, Service!ServiceTypeOK
<1>4. CASE Service!Cancel(r)
  <2>1. Service!ServiceTypeOK'
    BY <1>4 DEF RequestInv, Service!ServiceTypeOK, Service!Cancel
  <2>2. Targeted' /\ Submitted'
    BY <1>4 DEF RequestInv, Targeted, Submitted, Service!Cancel
  <2> QED BY <1>1, <2>1, <2>2 DEF RequestInv
<1> QED BY <1>2, <1>3, <1>4 DEF Service!ClientStep

LEMMA ApiCrashKeeps ==
    ASSUME StoreInv, RequestInv, Service!ApiCrash
    PROVE  RequestInv' /\ Kept
<1>1. Kept
  BY KeptOrWritten DEF Service!ApiCrash
<1>2. Service!ServiceTypeOK'
  BY DEF RequestInv, Service!ServiceTypeOK, Service!ApiCrash, Service!Active,
     Service!Steps, Service!Calls
<1>3. Targeted'
  BY DEF RequestInv, Targeted, Service!ApiCrash, Service!Active, Service!Calls
<1>4. Submitted'
  BY DEF RequestInv, Submitted, LaterCalls, Service!ApiCrash, Service!Active
<1> QED BY <1>1, <1>2, <1>3, <1>4 DEF RequestInv

\* A request that hands its URL over has a record for it.
LEMMA DispatchKeeps ==
    ASSUME StoreInv, RequestInv, NEW r \in Requests,
           \/ Service!Dispatched(r)
           \/ Service!DispatchFails(r)
           \/ UNCHANGED <<records, requests>>
    PROVE  RequestInv' /\ Kept
<1>1. Kept
  BY KeptOrWritten DEF Service!Dispatched, Service!DispatchFails
<1>2. CASE Service!Dispatched(r)
  <2>1. step[r] \in Service!Calls /\ records'[target[r]] # Absent
    BY <1>2 DEF Service!Dispatched, Service!Calls, RequestInv, Submitted, LaterCalls
  <2> QED
    BY <1>1, <1>2, <2>1, GoOnKeeps, AnswerKeeps
       DEF Service!Dispatched, Service!Calls, Service!Codes, Service!Statuses,
           RequestInv, Service!ServiceTypeOK
<1>3. CASE Service!DispatchFails(r)
  BY <1>1, <1>3, GiveUpKeeps DEF Service!DispatchFails, Service!Calls, Service!Codes
<1>4. CASE UNCHANGED <<records, requests>>
  BY <1>1, <1>4
     DEF requests, RequestInv, Service!ServiceTypeOK, Targeted, Submitted
<1> QED BY <1>2, <1>3, <1>4

-----------------------------------------------------------------------------
(* The topic *)

\* The topic grows by a URL that has a record, or not at all.
LogGrows ==
    \E r \in Requests, p \in Partitions :
        /\ target[r] \in Urls
        /\ records[target[r]] # Absent
        /\ log' = [log EXCEPT ![p] = Append(@, target[r])]

LEMMA LogKeeps ==
    ASSUME LogOK, LogHasRecords, Kept, UNCHANGED log \/ LogGrows
    PROVE  LogOK' /\ LogHasRecords'
<1>1. CASE UNCHANGED log
  BY <1>1 DEF LogOK, LogHasRecords, Kept
<1>2. CASE LogGrows
  <2>1. PICK r \in Requests, p \in Partitions :
          /\ target[r] \in Urls
          /\ records[target[r]] # Absent
          /\ log' = [log EXCEPT ![p] = Append(@, target[r])]
    BY <1>2 DEF LogGrows
  <2>2. LogOK'
    BY <2>1 DEF LogOK
  <2>3. ASSUME NEW q \in Partitions, NEW i \in 1 .. Len(log'[q])
        PROVE  records'[log'[q][i]] # Absent
    <3>1. log[q] \in Seq(Urls)
      BY DEF LogOK
    <3>2. CASE i \in 1 .. Len(log[q])
      <4>1. log'[q][i] = log[q][i] /\ log[q][i] \in Urls
        BY <2>1, <3>1, <3>2 DEF LogOK
      <4> QED BY <3>2, <4>1 DEF LogHasRecords, Kept
    <3>3. CASE i \notin 1 .. Len(log[q])
      <4>1. log'[q][i] = target[r]
        BY <2>1, <2>3, <3>1, <3>3 DEF LogOK
      <4> QED BY <2>1, <4>1 DEF Kept
    <3> QED BY <3>2, <3>3
  <2> QED BY <2>2, <2>3 DEF LogHasRecords
<1> QED BY <1>1, <1>2

-----------------------------------------------------------------------------
(* The steps of the pipeline *)

LEMMA HandlerWrites ==
    ASSUME NEW u,
           \/ UNCHANGED records
           \/ \E s \in {"fetching", "failed"} : Handler!UpdateStatus(u, s)
           \/ Handler!UpdateReady(u)
    PROVE  UNCHANGED records \/ Writes(u)
BY DEF Writes, Handler!UpdateStatus, Store!UpdateStatus, Handler!UpdateReady,
       Store!UpdateReady

LEMMA WorkerWrites ==
    ASSUME NEW w \in Workers, WorkerStep(w)
    PROVE  /\ UNCHANGED records \/ \E u : Writes(u)
           /\ UNCHANGED requests
           /\ UNCHANGED log
<1>1. CASE HandlerStep(w)
  BY <1>1, HandlerWrites
     DEF HandlerStep, Handler!MarkFetching, Handler!Fetch, topic
<1>2. CASE HandlerReturns(w)
  BY <1>2, HandlerWrites
     DEF HandlerReturns, Handler!ResultStored, Handler!ReturnsError, Handler!ResultLost,
         Handler!FailureStored, Consumer!HandlerSucceeds, Consumer!HandlerFails,
         Consumer!broker
<1>3. CASE LoopStep(w)
  BY <1>3
     DEF LoopStep, Delivers, Waits, SendsLetter, Commits, Consumer!Deliver,
         Consumer!FetchCancelled, Consumer!BackoffElapses, Consumer!BackoffCancelled,
         Consumer!DeadLetterWritten, Consumer!DeadLetterFails, Consumer!CommitSucceeds,
         Consumer!CommitFails, Consumer!broker
<1>4. CASE ProcessRuns(w) \/ ProcessEnds(w)
  BY <1>4
     DEF ProcessRuns, ProcessEnds, Consumer!Start, Consumer!Signal, Consumer!Exit,
         Consumer!Crash, Consumer!Vanish, Consumer!broker
<1> QED BY <1>1, <1>2, <1>3, <1>4 DEF WorkerStep

LEMMA RequestSteps ==
    ASSUME IInv, NEW r \in Requests, RequestStep(r)
    PROVE  RequestInv' /\ Kept /\ (UNCHANGED log \/ LogGrows)
<1> USE DEF IInv
<1>1. CASE ApiStep(r)
  BY <1>1, ClientStepKeeps, StoreStepKeeps DEF ApiStep, topic
<1>2. CASE PublishRequest(r)
  <2>1. step[r] = "dispatch"
    BY <1>2 DEF PublishRequest, Service!Dispatched
  <2>2. LogGrows
    BY <1>2, <2>1 DEF PublishRequest, Consumer!Publish, LogGrows, RequestInv, Targeted,
       Submitted, LaterCalls, Service!Calls
  <2> QED BY <1>2, <2>2, DispatchKeeps DEF PublishRequest
<1>3. CASE PublishFails(r)
  BY <1>3, DispatchKeeps DEF PublishFails, topic
<1>4. CASE WriterSends(r)
  <2>1. step[r] = "dispatch" \/ brokenAt[r] = "dispatch"
    BY <1>4 DEF WriterSends
  <2>2. LogGrows
    BY <1>4, <2>1 DEF WriterSends, Consumer!Publish, LogGrows, RequestInv, Targeted,
       Submitted, LaterCalls, Service!Calls
  <2> QED BY <1>4, <2>2, DispatchKeeps DEF WriterSends
<1> QED BY <1>1, <1>2, <1>3, <1>4 DEF RequestStep

LEMMA StepKeeps ==
    ASSUME IInv, [Next]_vars
    PROVE  IInv'
<1>1. SUFFICES RequestInv' /\ Kept /\ (UNCHANGED log \/ LogGrows)
  BY LogKeeps DEF IInv, Kept
<1> USE DEF IInv
<1>2. ASSUME NEW r \in Requests, RequestStep(r)
      PROVE  RequestInv' /\ Kept /\ (UNCHANGED log \/ LogGrows)
  BY <1>2, RequestSteps
<1>3. CASE ApiCrash
  BY <1>3, ApiCrashKeeps DEF ApiCrash, topic
<1>4. CASE GroupStep
  <2>1. UNCHANGED <<records, requests, log>>
    BY <1>4 DEF GroupStep, Consumer!GroupStep, Consumer!Rebalance,
       Consumer!SessionTimeout
  <2>2. Kept
    BY <2>1, KeptOrWritten
  <2>3. RequestInv'
    BY <2>1 DEF requests, RequestInv, Service!ServiceTypeOK, Targeted, Submitted
  <2> QED BY <2>1, <2>2, <2>3
<1>5. ASSUME NEW w \in Workers, WorkerStep(w)
      PROVE  RequestInv' /\ Kept /\ (UNCHANGED log \/ LogGrows)
  <2>1. Kept
    BY <1>5, WorkerWrites, KeptOrWritten
  <2>2. RequestInv'
    BY <1>5, <2>1, WorkerWrites
       DEF requests, RequestInv, Service!ServiceTypeOK, Targeted, Submitted, Kept,
           LaterCalls, Service!Calls
  <2> QED BY <1>5, <2>1, <2>2, WorkerWrites
<1>6. CASE UNCHANGED vars
  <2>1. Kept
    BY <1>6, KeptOrWritten DEF vars
  <2>2. RequestInv'
    BY <1>6 DEF vars, requests, RequestInv, Service!ServiceTypeOK, Targeted, Submitted
  <2> QED BY <1>6, <2>1, <2>2 DEF vars, topic
<1> QED BY <1>2, <1>3, <1>4, <1>5, <1>6 DEF Next

LEMMA InitHolds ==
    ASSUME Init
    PROVE  IInv
<1> USE DEF Init
<1>1. StoreInv
  BY AbsentAssumption DEF StoreInv, Store!StoreInit, Store!StoreTypeOK,
     Store!RecordsConsistent, Store!StatusOf, Store!Statuses
<1>2. RequestInv
  BY DEF RequestInv, Service!ServiceInit, Service!ServiceTypeOK, Targeted, Submitted,
     LaterCalls, Service!Steps, Service!Calls, Service!Replies, Service!NoReply
<1>3. LogOK /\ LogHasRecords
  BY DEF Consumer!Init, LogOK, LogHasRecords
<1> QED BY <1>1, <1>2, <1>3 DEF IInv

LEMMA Invariance == Spec => []IInv
<1>1. Init => IInv
  BY InitHolds
<1>2. IInv /\ [Next]_vars => IInv'
  BY StepKeeps
<1> QED BY <1>1, <1>2, PTL DEF Spec

\* A ready record has its result, a failed one is counted, a pending one is fresh,
\* whatever the order of the writes (Upsert, UpdateStatus).
THEOREM RecordsStayConsistent == Spec => []RecordsConsistent
<1>1. IInv => RecordsConsistent
  BY DEF IInv, StoreInv, RecordsConsistent
<1> QED BY <1>1, Invariance, PTL

LEMMA MessagesRecorded == IInv => JobsHaveRecords
<1> SUFFICES ASSUME IInv, NEW u \in Urls, JobsOf(u) # {}
             PROVE  records[u] # Absent
  BY DEF JobsHaveRecords
<1>1. PICK m \in Partitions \X (0 .. MaxMessages - 1) :
        Consumer!Published(m) /\ Consumer!Payload(m) = u
  BY DEF JobsOf
<1>2. m[1] \in Partitions /\ m[2] \in Nat /\ m[2] < Len(log[m[1]])
  BY <1>1, BoundsAssumption DEF Consumer!Published
<1>3. log[m[1]] \in Seq(Urls)
  BY <1>2 DEF IInv, LogOK
<1>4. m[2] + 1 \in 1 .. Len(log[m[1]])
  BY <1>2, <1>3
<1> QED BY <1>1, <1>2, <1>4 DEF IInv, LogHasRecords, Consumer!Payload

\* Whoever takes a message finds the document it is about (Upsert comes before
\* dispatchAsyncFetch).
THEOREM MessagesHaveRecords == Spec => []JobsHaveRecords
BY MessagesRecorded, Invariance, PTL

-----------------------------------------------------------------------------
(* The topic sees a consume loop *)

LEMMA WorkerIsLoop ==
    ASSUME NEW w \in Workers, WorkerStep(w)
    PROVE  Consumer!Next \/ UNCHANGED Consumer!vars
<1> USE DEF Consumer!Next
<1>1. CASE HandlerStep(w)
  BY <1>1 DEF HandlerStep, topic, Consumer!vars, Consumer!broker, Consumer!workers,
     Consumer!history
<1>2. CASE HandlerReturns(w)
  BY <1>2 DEF HandlerReturns, Consumer!HandlerReturns
<1>3. CASE LoopStep(w)
  <2>1. Consumer!LoopStep(w)
    BY <1>3 DEF LoopStep, Delivers, Waits, SendsLetter, Commits, Consumer!LoopStep
  <2> QED BY <2>1
<1>4. CASE ProcessRuns(w) \/ ProcessEnds(w)
  BY <1>4 DEF ProcessRuns, ProcessEnds, Consumer!ProcessStep
<1> QED BY <1>1, <1>2, <1>3, <1>4 DEF WorkerStep

LEMMA RequestIsProducer ==
    ASSUME IInv, NEW r \in Requests, RequestStep(r)
    PROVE  Consumer!Next \/ UNCHANGED Consumer!vars
<1>1. CASE ApiStep(r) \/ PublishFails(r)
  BY <1>1 DEF ApiStep, PublishFails, topic, Consumer!vars, Consumer!broker,
     Consumer!workers, Consumer!history
<1>2. CASE PublishRequest(r) \/ WriterSends(r)
  <2>1. target[r] \in Urls
    BY <1>2 DEF PublishRequest, WriterSends, Service!Dispatched, IInv, RequestInv,
       Targeted, Service!Calls
  <2>2. \E p \in Partitions : Consumer!Publish(p, target[r])
    BY <1>2 DEF PublishRequest, WriterSends
  <2> QED BY <2>1, <2>2 DEF Consumer!Next, Consumer!Payloads
<1> QED BY <1>1, <1>2 DEF RequestStep

LEMMA StepIsLoopStep ==
    ASSUME IInv, [Next]_vars
    PROVE  Consumer!Next \/ UNCHANGED Consumer!vars
<1>1. ASSUME NEW r \in Requests, RequestStep(r)
      PROVE  Consumer!Next \/ UNCHANGED Consumer!vars
  BY <1>1, RequestIsProducer
<1>2. ASSUME NEW w \in Workers, WorkerStep(w)
      PROVE  Consumer!Next \/ UNCHANGED Consumer!vars
  BY <1>2, WorkerIsLoop
<1>3. CASE GroupStep
  BY <1>3 DEF GroupStep, Consumer!Next
<1>4. CASE ApiCrash \/ UNCHANGED vars
  BY <1>4 DEF ApiCrash, vars, topic, Consumer!vars, Consumer!broker, Consumer!workers,
     Consumer!history
<1> QED BY <1>1, <1>2, <1>3, <1>4 DEF Next

\* Seen from the topic the pipeline is the consume loop with a producer: what is
\* proved of KafkaConsumer holds of it (Publish, Start, handleMessage).
THEOREM TopicSeesConsumer == Spec => ConsumerSpec
<1>1. Init => Consumer!Init
  BY DEF Init
<1>2. IInv /\ [Next]_vars => [Consumer!Next]_(Consumer!vars)
  BY StepIsLoopStep
<1> QED BY <1>1, <1>2, Invariance, PTL DEF Spec, ConsumerSpec, Consumer!Spec

-----------------------------------------------------------------------------
(* What is proved of the loop holds of the pipeline *)

Loop == INSTANCE KafkaConsumerProofs WITH Jobs <- Urls, Malformed <- {}

LEMMA SameLoop ==
    ASSUME NEW w \in Workers, Consumer!LoopStep(w)
    PROVE  Loop!LoopStep(w)
<1> USE DEF Consumer!broker, Loop!broker, Consumer!workers, Loop!workers,
        Consumer!history, Loop!history, Consumer!NextIteration, Loop!NextIteration,
        Consumer!Payload, Loop!Payload
<1>1. ASSUME NEW p \in Partitions, Consumer!Deliver(w, p)
      PROVE  Loop!Deliver(w, p)
  BY <1>1 DEF Consumer!Deliver, Loop!Deliver
<1>2. Consumer!FetchCancelled(w) => Loop!FetchCancelled(w)
  BY DEF Consumer!FetchCancelled, Loop!FetchCancelled
<1>3. Consumer!BackoffElapses(w) => Loop!BackoffElapses(w)
  BY DEF Consumer!BackoffElapses, Loop!BackoffElapses
<1>4. Consumer!BackoffCancelled(w) => Loop!BackoffCancelled(w)
  BY DEF Consumer!BackoffCancelled, Loop!BackoffCancelled
<1>5. Consumer!DeadLetterWritten(w) => Loop!DeadLetterWritten(w)
  BY DEF Consumer!DeadLetterWritten, Loop!DeadLetterWritten
<1>6. Consumer!DeadLetterFails(w) => Loop!DeadLetterFails(w)
  BY DEF Consumer!DeadLetterFails, Loop!DeadLetterFails
<1>7. Consumer!CommitSucceeds(w) => Loop!CommitSucceeds(w)
  BY DEF Consumer!CommitSucceeds, Loop!CommitSucceeds
<1>8. Consumer!CommitFails(w) => Loop!CommitFails(w)
  BY DEF Consumer!CommitFails, Loop!CommitFails
<1> QED
  BY <1>1, <1>2, <1>3, <1>4, <1>5, <1>6, <1>7, <1>8 DEF Consumer!LoopStep, Loop!LoopStep

LEMMA SameProcess ==
    ASSUME NEW w \in Workers, Consumer!ProcessStep(w) \/ Consumer!HandlerReturns(w)
    PROVE  Loop!ProcessStep(w) \/ Loop!HandlerReturns(w)
<1> USE DEF Consumer!broker, Loop!broker, Consumer!workers, Loop!workers,
        Consumer!history, Loop!history, Consumer!Vanish, Loop!Vanish,
        Consumer!Release, Loop!Release
<1>1. Consumer!Start(w) => Loop!Start(w)
  BY DEF Consumer!Start, Loop!Start
<1>2. Consumer!Signal(w) => Loop!Signal(w)
  BY DEF Consumer!Signal, Loop!Signal
<1>3. Consumer!Exit(w) => Loop!Exit(w)
  BY DEF Consumer!Exit, Loop!Exit
<1>4. Consumer!Crash(w) => Loop!Crash(w)
  BY DEF Consumer!Crash, Loop!Crash
<1>5. Consumer!HandlerSucceeds(w) => Loop!HandlerSucceeds(w)
  BY DEF Consumer!HandlerSucceeds, Loop!HandlerSucceeds
<1>6. Consumer!HandlerFails(w) => Loop!HandlerFails(w)
  BY DEF Consumer!HandlerFails, Loop!HandlerFails
<1> QED
  BY <1>1, <1>2, <1>3, <1>4, <1>5, <1>6
     DEF Consumer!ProcessStep, Loop!ProcessStep, Consumer!HandlerReturns,
         Loop!HandlerReturns

LEMMA SameNext ==
    ASSUME Consumer!Next
    PROVE  Loop!Next
<1>1. ASSUME NEW p \in Partitions, NEW x \in Consumer!Payloads, Consumer!Publish(p, x)
      PROVE  Loop!Next
  <2>1. x \in Loop!Payloads
    BY DEF Consumer!Payloads, Loop!Payloads
  <2>2. Loop!Publish(p, x)
    BY <1>1 DEF Consumer!Publish, Loop!Publish, Consumer!workers, Loop!workers,
       Consumer!history, Loop!history
  <2> QED BY <2>1, <2>2 DEF Loop!Next
<1>2. CASE Consumer!GroupStep
  <2> USE DEF Consumer!workers, Loop!workers, Consumer!history, Loop!history
  <2>1. \A p \in Partitions : Consumer!StartPosition(p) = Loop!StartPosition(p)
    BY DEF Consumer!StartPosition, Loop!StartPosition, Consumer!NoOffset, Loop!NoOffset
  <2>2. \A p \in Partitions : Consumer!PassedOver(p) = Loop!PassedOver(p)
    BY DEF Consumer!PassedOver, Loop!PassedOver, Consumer!NoOffset, Loop!NoOffset
  <2>3. Consumer!Live = Loop!Live
    BY DEF Consumer!Live, Loop!Live
  <2>4. Consumer!Rebalance => Loop!Rebalance
    <3>1. {Consumer!PassedOver(p) : p \in Partitions}
            = {Loop!PassedOver(p) : p \in Partitions}
      BY <2>2
    <3>2. [p \in Partitions |-> Consumer!StartPosition(p)]
            = [p \in Partitions |-> Loop!StartPosition(p)]
      BY <2>1
    <3> QED BY <2>3, <3>1, <3>2 DEF Consumer!Rebalance, Loop!Rebalance
  <2>5. Consumer!SessionTimeout => Loop!SessionTimeout
    BY <2>3 DEF Consumer!SessionTimeout, Loop!SessionTimeout
  <2> QED BY <1>2, <2>4, <2>5 DEF Consumer!GroupStep, Loop!GroupStep, Loop!Next
<1>3. ASSUME NEW w \in Workers,
             Consumer!ProcessStep(w) \/ Consumer!LoopStep(w) \/ Consumer!HandlerReturns(w)
      PROVE  Loop!Next
  BY <1>3, SameLoop, SameProcess DEF Loop!Next
<1> QED BY <1>1, <1>2, <1>3 DEF Consumer!Next

LEMMA LoopInPipeline == Spec => Loop!Spec
<1>1. Consumer!Init => Loop!Init
  BY DEF Consumer!Init, Loop!Init, Consumer!NoOffset, Loop!NoOffset
<1>2. [Consumer!Next]_(Consumer!vars) => [Loop!Next]_(Loop!vars)
  BY SameNext
     DEF Consumer!vars, Loop!vars, Consumer!broker, Loop!broker, Consumer!workers,
         Loop!workers, Consumer!history, Loop!history
<1> QED
  BY <1>1, <1>2, TopicSeesConsumer, PTL
     DEF ConsumerSpec, Consumer!Spec, Loop!Spec

LEMMA LoopAssumptions ==
    /\ Loop!PayloadAssumption
    /\ Loop!RetriesAssumption
    /\ Loop!NoWorkerAssumption
    /\ Loop!BoundsAssumption
BY LoopAssumption, BoundsAssumption
   DEF Loop!PayloadAssumption, Loop!RetriesAssumption, Loop!NoWorkerAssumption,
       Loop!BoundsAssumption

HandlerTypes == Handler!WorkerTypeOK /\ interrupted \subseteq Urls

LEMMA HandlerTypesKept == Spec => []HandlerTypes
<1>1. Init => HandlerTypes
  BY DEF Init, HandlerTypes, Handler!WorkerInit, Handler!WorkerTypeOK, Handler!Phases
<1>2. ASSUME HandlerTypes, [Next]_vars
      PROVE  HandlerTypes'
  <2> USE <1>2 DEF HandlerTypes, Handler!WorkerTypeOK
  <2>1. CASE UNCHANGED <<phase, interrupted>>
    BY <2>1
  <2>2. ASSUME NEW r \in Requests, RequestStep(r)
        PROVE  UNCHANGED <<phase, interrupted>>
    BY <2>2 DEF RequestStep, ApiStep, PublishRequest, PublishFails, WriterSends
  <2>3. ASSUME NEW w \in Workers, WorkerStep(w)
        PROVE  HandlerTypes'
    <3>1. CASE HandlerStep(w)
      BY <3>1 DEF HandlerStep, Handler!MarkFetching, Handler!Fetch, Handler!GoTo,
         Handler!Phases
    <3>2. CASE HandlerReturns(w)
      BY <3>2 DEF HandlerReturns, Handler!ResultStored, Handler!ReturnsError,
         Handler!ResultLost, Handler!FailureStored, Handler!GoTo, Handler!Phases
    <3>3. CASE ProcessEnds(w)
      BY <3>3 DEF ProcessEnds, Handler!Phases
    <3>4. CASE LoopStep(w) \/ ProcessRuns(w)
      BY <2>1, <3>4 DEF LoopStep, ProcessRuns
    <3> QED BY <2>3, <3>1, <3>2, <3>3, <3>4 DEF WorkerStep
  <2> QED
    BY <1>2, <2>1, <2>2, <2>3 DEF Next, ApiCrash, GroupStep, vars
<1> QED BY <1>1, <1>2, PTL DEF Spec

\* Every variable of the pipeline keeps its type.
THEOREM SystemTypeCorrect == Spec => []TypeOK
<1>1. Spec => []Loop!TypeOK
  <2>1. Loop!Spec => []Loop!TypeOK
    BY LoopAssumptions, Loop!TypeCorrect
  <2> QED BY <2>1, LoopInPipeline, PTL
<1>2. Loop!TypeOK => Consumer!TypeOK
  BY DEF Consumer!TypeOK, Loop!TypeOK, Consumer!Payloads, Loop!Payloads,
     Consumer!NoOffset, Loop!NoOffset, Consumer!States, Loop!States,
     Consumer!InFlightStates, Loop!InFlightStates, Consumer!Messages, Loop!Messages
<1>3. IInv /\ HandlerTypes /\ Consumer!TypeOK => TypeOK
  BY DEF IInv, StoreInv, RequestInv, HandlerTypes, TypeOK
<1> QED BY <1>1, <1>2, <1>3, Invariance, HandlerTypesKept, PTL

\* No offset is committed over a message that nothing accounts for, with the API as
\* the producer and handleMessage as the handler (Start, commitOffset).
THEOREM PipelineLosesNothing ==
    ASSUME MaxRetries \in Nat
    PROVE  Spec => []Consumer!NoSilentLoss
<1>1. Loop!Spec => []Loop!NoSilentLoss
  BY LoopAssumptions, Loop!NothingSilentlyLost
<1>2. Loop!NoSilentLoss => Consumer!NoSilentLoss
  BY DEF Consumer!NoSilentLoss, Loop!NoSilentLoss, Consumer!Published, Loop!Published,
     Consumer!Accounted, Loop!Accounted, Consumer!Settled, Loop!Settled,
     Consumer!Payload, Loop!Payload
<1> QED BY <1>1, <1>2, LoopInPipeline, PTL

\* The pipeline delivers at least once what its requests publish (Publish, Start,
\* processMessage, commitOffset).
THEOREM PipelineDeliversAtLeastOnce ==
    ASSUME MaxRetries \in Nat
    PROVE  Spec => Consumer!DeliversAtLeastOnce
<1> USE DEF Consumer!Published, Loop!Published, Consumer!Settled, Loop!Settled,
        Consumer!Payload, Loop!Payload, Consumer!PublishedMessages,
        Loop!PublishedMessages, Consumer!NoOffset, Loop!NoOffset
<1>1. Loop!Spec => Loop!DeliversAtLeastOnce
  BY LoopAssumptions, Loop!ImplementsAtLeastOnce
<1>2. Loop!Delivery!Init => Consumer!Delivery!Init
  BY DEF Loop!Delivery!Init, Consumer!Delivery!Init
<1>3. [Loop!Delivery!Next]_(Loop!Delivery!vars)
          => [Consumer!Delivery!Next]_(Consumer!Delivery!vars)
  <2>1. Loop!Delivery!Finish => Consumer!Delivery!Finish
    BY DEF Loop!Delivery!Finish, Consumer!Delivery!Finish, Loop!Delivery!Messages,
       Consumer!Delivery!Messages
  <2>2. ASSUME NEW p \in Partitions, Loop!Delivery!Publish(p)
        PROVE  Consumer!Delivery!Publish(p)
    BY <2>2 DEF Loop!Delivery!Publish, Consumer!Delivery!Publish
  <2>3. ASSUME NEW p \in Partitions, Loop!Delivery!Commit(p)
        PROVE  Consumer!Delivery!Commit(p)
    BY <2>3 DEF Loop!Delivery!Commit, Consumer!Delivery!Commit
  <2> QED
    BY <2>1, <2>2, <2>3
       DEF Loop!Delivery!Next, Consumer!Delivery!Next, Loop!Delivery!vars,
           Consumer!Delivery!vars
<1>4. Loop!DeliversAtLeastOnce => Consumer!DeliversAtLeastOnce
  BY <1>2, <1>3, PTL
     DEF Loop!DeliversAtLeastOnce, Consumer!DeliversAtLeastOnce, Loop!Delivery!Spec,
         Consumer!Delivery!Spec
<1> QED BY <1>1, <1>4, LoopInPipeline, PTL

\* It works on a partition in order, across workers too, and commits what was settled
\* (the return values of processMessage).
THEOREM PipelineWorksInOrder ==
    ASSUME MaxRetries \in Nat
    PROVE  Spec => [](Consumer!StartedInOrder /\ Consumer!CommitFollowsOutcome)
<1> USE DEF Consumer!Accounted, Loop!Accounted, Consumer!Settled, Loop!Settled,
        Consumer!Payload, Loop!Payload
<1>1. Loop!Spec => []Loop!StartedInOrder
  BY LoopAssumptions, Loop!WorkIsInOrder
<1>2. Loop!Spec => []Loop!CommitFollowsOutcome
  BY LoopAssumptions, Loop!CommitsFollowOutcomes
<1>3. Loop!StartedInOrder => Consumer!StartedInOrder
  BY DEF Consumer!StartedInOrder, Loop!StartedInOrder, Consumer!InFlight,
     Loop!InFlight, Consumer!InFlightStates, Loop!InFlightStates
<1>4. Loop!CommitFollowsOutcome => Consumer!CommitFollowsOutcome
  BY DEF Consumer!CommitFollowsOutcome, Loop!CommitFollowsOutcome
<1> QED BY <1>1, <1>2, <1>3, <1>4, LoopInPipeline, PTL

\* A URL gets its dead letter right after the last attempt of handleMessage at it.
THEOREM PipelineLettersAreExhausted ==
    ASSUME MaxRetries \in Nat
    PROVE  Spec => Consumer!DeadLettersAreExhausted
<1>1. Loop!Spec => Loop!DeadLettersAreExhausted
  BY LoopAssumptions, Loop!LettersAreExhausted
<1>2. Loop!DeadLettersAreExhausted => Consumer!DeadLettersAreExhausted
  <2>1. [\A m \in deadLettered' \ deadLettered :
            /\ Loop!Payload(m) \in Urls
            /\ \E w \in Workers : current[w] = m /\ attempt[w] = MaxRetries]_(Loop!vars)
        => [\A m \in deadLettered' \ deadLettered :
            /\ Consumer!Payload(m) \in Urls
            /\ \E w \in Workers : current[w] = m /\ attempt[w] = MaxRetries]_(Consumer!vars)
    BY DEF Loop!Payload, Consumer!Payload, Loop!vars, Consumer!vars, Loop!broker,
       Consumer!broker, Loop!workers, Consumer!workers, Loop!history, Consumer!history
  <2> QED
    BY <2>1, PTL DEF Loop!DeadLettersAreExhausted, Consumer!DeadLettersAreExhausted
<1> QED BY <1>1, <1>2, LoopInPipeline, PTL
=============================================================================
