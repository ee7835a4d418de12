-------------------------- MODULE LifeCycleProofs --------------------------
(***************************************************************************)
(* The pipeline implements RecordLifeCycle, for any number of URLs,        *)
(* requests, workers and partitions and any kinds of failure.              *)
(*                                                                         *)
(* A step of the pipeline that writes is one of a request between its      *)
(* Upsert and its last write, or of a handler with a message in hand, or   *)
(* an Upsert.  That attention has a document, and that one in progress has *)
(* attention, are invariants; that nothing takes back what forsook a       *)
(* record is ForsakenKept.                                                 *)
(***************************************************************************)
EXTENDS StrandedProofs

-----------------------------------------------------------------------------
(* The states *)

\* Nobody attends to a URL without a document.
AttendedExist == \A u \in Urls : Attended(u) => records[u] # Absent

LEMMA AttendedIsFound == Everything => AttendedExist
<1> SUFFICES ASSUME Everything, NEW u \in Urls, Attended(u)
             PROVE  records[u] # Absent
  BY DEF AttendedExist
<1>1. ASSUME JobsOf(u) # {}
      PROVE  records[u] # Absent
  BY <1>1, MessagesRecorded DEF Everything, JobsHaveRecords
<1>2. ASSUME NEW r \in Requests, target[r] = u,
             step[r] \in {"dispatch", "mark", "fetch", "saveReady", "saveFailed"}
      PROVE  records[u] # Absent
  BY <1>2 DEF Everything, IInv, RequestInv, Submitted, LaterCalls
<1>3. ASSUME NEW w \in Workers, InHandOf(w, u)
      PROVE  records[u] # Absent
  BY <1>1, <1>3, HandIsJob DEF InHandOf, Consumer!InFlight, Consumer!InFlightStates
<1> QED BY <1>1, <1>2, <1>3 DEF Attended

LEMMA LifeBegins == Init => LifeCycle!Init
<1> SUFFICES ASSUME Init
             PROVE  LifeCycle!Init
  OBVIOUS
<1>1. \A u : JobsOf(u) = {}
  BY BoundsAssumption DEF Init, Consumer!Init, JobsOf, Consumer!Published
<1>2. \A u : ~Attended(u)
  BY <1>1 DEF Init, Service!ServiceInit, Consumer!Init, Attended, InHandOf
<1>3. \A u : ~Forsaken(u)
  BY <1>1 DEF Init, Service!ServiceInit, Forsaken, GaveUp
<1> QED
  BY <1>2, <1>3 DEF Init, Store!StoreInit, LifeCycle!Init, LifeCycle!StoreInit

-----------------------------------------------------------------------------
(* The writes *)

\* A write the life cycle allows.
Lives == \E u \in Urls : Store!UpsertPending(u) \/ (Attended(u) /\ Writes(u))

\* Only an Upsert is made by a request that does not attend to its URL.
LEMMA RequestLives ==
    ASSUME Everything, NEW r \in Requests, Service!StoreStep(r)
    PROVE  UNCHANGED records \/ Lives
<1>1. target[r] \in Urls
  BY UnderWay DEF Everything, IInv, RequestInv, Targeted
<1>2. CASE \/ Service!Find(r) \/ Service!FindFails(r) \/ Service!InlineFetch(r)
           \/ Service!Reread(r) \/ Service!RereadFails(r)
  BY <1>2 DEF Service!Find, Service!FindFails, Service!InlineFetch, Service!Reread,
     Service!RereadFails
<1>3. CASE Service!Upsert(r) \/ Service!UpsertFails(r)
  BY <1>1, <1>3 DEF Service!Upsert, Service!UpsertFails, Service!UpsertPending,
     Store!UpsertPending, Lives
<1>4. CASE \/ Service!Mark(r) \/ Service!SaveFailed(r) \/ Service!SaveReady(r)
           \/ Service!SaveReadyFails(r)
  <2>1. Attended(target[r])
    BY <1>4 DEF Service!Mark, Service!SaveFailed, Service!SaveReady,
       Service!SaveReadyFails, Attended
  <2>2. UNCHANGED records \/ Writes(target[r])
    BY <1>4, ServiceWrites DEF Service!Mark, Service!SaveFailed, Service!SaveReady,
       Service!SaveReadyFails
  <2> QED BY <1>1, <2>1, <2>2 DEF Lives
<1> QED BY <1>2, <1>3, <1>4 DEF Service!StoreStep

\* A handler writes the record of the message in its hand.
LEMMA HandlerLives ==
    ASSUME Everything, NEW w \in Workers, HandlerStep(w) \/ HandlerReturns(w)
    PROVE  UNCHANGED records \/ Lives
<1> DEFINE u == UrlInHand(w)
<1>1. pc[w] = "handle"
  BY DEF HandlerStep, HandlerReturns, Working, Consumer!HandlerSucceeds,
     Consumer!HandlerFails
<1>2. u \in Urls
  BY <1>1, HandIsJob, JobsAre
     DEF Everything, Consumer!InFlight, Consumer!InFlightStates, UrlInHand,
         Consumer!Payload, Place, Consumer!Published, IInv, LogOK
<1>3. Attended(u)
  BY <1>1 DEF Attended, InHandOf
<1>4. UNCHANGED records \/ Writes(u)
  BY HandlerWrites
     DEF HandlerStep, HandlerReturns, Handler!MarkFetching, Handler!Fetch,
         Handler!ResultStored, Handler!ReturnsError, Handler!ResultLost,
         Handler!FailureStored
<1> QED BY <1>2, <1>3, <1>4 DEF Lives

LEMMA StepLives ==
    ASSUME Everything, [Next]_vars
    PROVE  UNCHANGED records \/ Lives
<1>1. ASSUME NEW r \in Requests, RequestStep(r)
      PROVE  UNCHANGED records \/ Lives
  BY <1>1, RequestLives
     DEF RequestStep, ApiStep, PublishRequest, PublishFails, WriterSends,
         Service!ClientStep, Service!Arrive, Service!Reject, Service!Cancel,
         Service!Dispatched, Service!DispatchFails
<1>2. ASSUME NEW w \in Workers, WorkerStep(w)
      PROVE  UNCHANGED records \/ Lives
  BY <1>2, HandlerLives DEF WorkerStep, LoopStep, ProcessRuns, ProcessEnds
<1>3. ApiCrash \/ GroupStep \/ UNCHANGED vars => UNCHANGED records
  BY DEF ApiCrash, Service!ApiCrash, GroupStep, vars
<1> QED BY <1>1, <1>2, <1>3 DEF Next

-----------------------------------------------------------------------------
(* The theorem *)

LEMMA StepAnswerable ==
    ASSUME Everything, [Next]_vars, AttendedExist', StrandedOnlyByFailure'
    PROVE  LifeCycle!Answerable
<1>1. \A u \in Urls : Attended(u)' => records'[u] # Absent
  BY DEF AttendedExist
<1>2. \A u \in Urls : Forsaken(u) => Forsaken(u)'
  BY ForsakenKept
<1>3. \A u \in Urls : LifeCycle!InProgress(u)' => Attended(u)' \/ Forsaken(u)'
  BY DEF StrandedOnlyByFailure, InProgress, Store!InProgress, Store!StatusOf,
     LifeCycle!InProgress, LifeCycle!StatusOf
<1> QED BY <1>1, <1>2, <1>3 DEF LifeCycle!Answerable, LifeCycle!Existing

LEMMA WriteIsLife ==
    ASSUME Lives
    PROVE  \E u \in Urls : LifeCycle!Submit(u) \/ LifeCycle!Work(u)
BY DEF Lives, Writes, Store!UpsertPending, Store!UpdateStatus, Store!UpdateReady,
       LifeCycle!Submit, LifeCycle!Work, LifeCycle!UpsertPending,
       LifeCycle!UpdateStatus, LifeCycle!UpdateReady

\* Whatever interleaving of requests, messages and workers: records are written by an
\* Upsert or by who attends to them, attention has a record, and a record in progress
\* is attended to or forsaken for good (SubmitURL, GetMetadata, handleMessage).
THEOREM ImplementsLifeCycle == Spec => RecordsLiveTheirCycle
<1> DEFINE Inv == Everything /\ AttendedExist /\ StrandedOnlyByFailure
<1>1. Spec => []Inv
  BY Throughout, AttendedIsFound, NoRecordStranded, PTL
<1>2. Inv /\ Inv' /\ [Next]_vars => [LifeCycle!Next]_(LifeCycle!lifeVars)
  BY StepLives, WriteIsLife, StepAnswerable DEF LifeCycle!Next
<1> HIDE DEF Inv
<1> QED
  BY <1>1, <1>2, LifeBegins, PTL DEF Spec, RecordsLiveTheirCycle, LifeCycle!Spec
=============================================================================
