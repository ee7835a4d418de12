--------------------------- MODULE StrandedProofs ---------------------------
(***************************************************************************)
(* No record is stranded but by the failures Forsaken names, for any       *)
(* number of URLs, requests, workers and partitions.                       *)
(*                                                                         *)
(* StrandedOnlyByFailure is not inductive: Attended counts a message that  *)
(* is on its way to the dead letter topic, and when it gets there nobody   *)
(* attends to the record.  What makes this harmless is that the handler    *)
(* has stored the failure then, unless its process is stopping or the      *)
(* store fails; a request that makes the record pending again attends to   *)
(* it itself.  NothingStranded counts such a message no more.              *)
(***************************************************************************)
EXTENDS MetadataSystemProofs

-----------------------------------------------------------------------------
(* What is in hand was published, and what was done was published *)

Place(m) == m \in Partitions \X (0 .. MaxMessages - 1) /\ Consumer!Published(m)

InTopic ==
    /\ \A p \in Partitions : Len(log[p]) <= MaxMessages
    /\ \A w \in Workers : Consumer!InFlight(w) => Place(current[w])
    /\ \A m \in handled \cup deadLettered \cup abandoned \cup skipped : Place(m)

TopicInv == Consumer!TypeOK /\ InTopic

\* The log changes by Publish alone.
LEMMA OnlyPublishing ==
    ASSUME Consumer!Next
    PROVE  \/ UNCHANGED log
           \/ \E p \in Partitions, x \in Consumer!Payloads : Consumer!Publish(p, x)
BY DEF Consumer!Next, Consumer!GroupStep, Consumer!Rebalance, Consumer!SessionTimeout,
     Consumer!ProcessStep, Consumer!Start, Consumer!Signal, Consumer!Exit,
     Consumer!Crash, Consumer!Vanish, Consumer!LoopStep, Consumer!Deliver,
     Consumer!FetchCancelled, Consumer!BackoffElapses, Consumer!BackoffCancelled,
     Consumer!DeadLetterWritten, Consumer!DeadLetterFails, Consumer!CommitSucceeds,
     Consumer!CommitFails, Consumer!HandlerReturns, Consumer!HandlerSucceeds,
     Consumer!HandlerFails, Consumer!broker

\* The messages of the topic stay where they are.
LEMMA PlacesKept ==
    ASSUME TopicInv, Consumer!Next, NEW m, Place(m)
    PROVE  /\ Place(m)'
           /\ Consumer!Payload(m)' = Consumer!Payload(m)
<1> USE DEF Place, Consumer!Published, Consumer!Payload
<1>1. /\ m[1] \in Partitions /\ m[2] \in Nat
      /\ log[m[1]] \in Seq(Consumer!Payloads)
  BY BoundsAssumption DEF TopicInv, Consumer!TypeOK
<1>2. ASSUME NEW p \in Partitions, NEW x \in Consumer!Payloads, Consumer!Publish(p, x)
      PROVE  /\ Place(m)'
             /\ Consumer!Payload(m)' = Consumer!Payload(m)
  <2>1. log' = [log EXCEPT ![p] = Append(@, x)]
    BY <1>2 DEF Consumer!Publish
  <2>2. CASE m[1] = p
    <3>1. log'[m[1]] = Append(log[m[1]], x)
      BY <1>1, <2>1, <2>2 DEF TopicInv, Consumer!TypeOK
    <3> QED BY <1>1, <3>1
  <2>3. CASE m[1] # p
    <3>1. log'[m[1]] = log[m[1]]
      BY <1>1, <2>1, <2>3 DEF TopicInv, Consumer!TypeOK
    <3> QED BY <1>1, <3>1
  <2> QED BY <2>2, <2>3
<1> QED BY <1>2, OnlyPublishing

\* What a step of the loop does to the hands.
LEMMA HandsKept ==
    ASSUME TopicInv, Consumer!Next, NEW w \in Workers, Consumer!InFlight(w)'
    PROVE  \/ Consumer!InFlight(w) /\ UNCHANGED current[w]
           \/ \E p \in Partitions : Consumer!Deliver(w, p)
<1> USE DEF TopicInv, Consumer!TypeOK, Consumer!InFlight, Consumer!InFlightStates
<1>1. CASE UNCHANGED <<pc, current>>
  BY <1>1
<1>2. (\E p \in Partitions, x \in Consumer!Payloads : Consumer!Publish(p, x))
          \/ Consumer!GroupStep => UNCHANGED <<pc, current>>
  BY DEF Consumer!Publish, Consumer!GroupStep, Consumer!Rebalance,
     Consumer!SessionTimeout, Consumer!workers
<1>3. ASSUME NEW v \in Workers, Consumer!ProcessStep(v)
      PROVE  Consumer!InFlight(w) /\ UNCHANGED current[w]
  BY <1>3 DEF Consumer!ProcessStep, Consumer!Start, Consumer!Signal, Consumer!Exit,
     Consumer!Crash, Consumer!Vanish
<1>4. ASSUME NEW v \in Workers, Consumer!LoopStep(v) \/ Consumer!HandlerReturns(v)
      PROVE  \/ Consumer!InFlight(w) /\ UNCHANGED current[w]
             \/ \E p \in Partitions : Consumer!Deliver(w, p)
  <2>1. ASSUME NEW p \in Partitions, Consumer!Deliver(v, p)
        PROVE  \/ Consumer!InFlight(w) /\ UNCHANGED current[w]
               \/ Consumer!Deliver(w, p)
    <3>1. CASE v = w
      BY <2>1, <3>1
    <3>2. CASE v # w
      BY <2>1, <3>2 DEF Consumer!Deliver
    <3> QED BY <3>1, <3>2
  <2>2. CASE \/ Consumer!FetchCancelled(v) \/ Consumer!BackoffCancelled(v)
             \/ Consumer!DeadLetterFails(v) \/ Consumer!CommitSucceeds(v)
             \/ Consumer!CommitFails(v)
    BY <2>2 DEF Consumer!FetchCancelled, Consumer!BackoffCancelled,
       Consumer!DeadLetterFails, Consumer!CommitSucceeds, Consumer!CommitFails,
       Consumer!NextIteration
  <2>3. CASE Consumer!BackoffElapses(v) \/ Consumer!DeadLetterWritten(v)
    BY <2>3 DEF Consumer!BackoffElapses, Consumer!DeadLetterWritten
  <2>4. CASE Consumer!HandlerReturns(v)
    BY <2>4 DEF Consumer!HandlerReturns, Consumer!HandlerSucceeds, Consumer!HandlerFails
  <2> QED BY <1>4, <2>1, <2>2, <2>3, <2>4 DEF Consumer!LoopStep
<1> QED BY <1>1, <1>2, <1>3, <1>4 DEF Consumer!Next

Past == handled \cup deadLettered \cup abandoned \cup skipped

\* What a step of the loop adds to the history was in a hand, or was passed over.
LEMMA HistoryGrows ==
    ASSUME Consumer!Next
    PROVE  /\ handled \subseteq handled'
           /\ deadLettered \subseteq deadLettered'
           /\ abandoned \subseteq abandoned'
           /\ skipped \subseteq skipped'
           /\ \A m \in Past' \ Past :
                 \/ \E w \in Workers : Consumer!InFlight(w) /\ current[w] = m
                 \/ \E p \in Partitions : m \in {p} \X (0 .. Len(log[p]) - 1)
<1> USE DEF Past
<1>1. CASE UNCHANGED Consumer!history
  BY <1>1 DEF Consumer!history
<1>2. (\E p \in Partitions, x \in Consumer!Payloads : Consumer!Publish(p, x))
          \/ Consumer!SessionTimeout => UNCHANGED Consumer!history
  BY DEF Consumer!Publish, Consumer!SessionTimeout
<1>3. CASE Consumer!Rebalance
  BY <1>3 DEF Consumer!Rebalance, Consumer!PassedOver
<1>4. ASSUME NEW v \in Workers, Consumer!ProcessStep(v)
      PROVE  UNCHANGED Consumer!history
  BY <1>4 DEF Consumer!ProcessStep, Consumer!Start, Consumer!Signal, Consumer!Exit,
     Consumer!Crash, Consumer!Vanish
<1>5. ASSUME NEW v \in Workers,
             \/ Consumer!BackoffCancelled(v) \/ Consumer!DeadLetterWritten(v)
             \/ Consumer!DeadLetterFails(v) \/ Consumer!HandlerSucceeds(v)
      PROVE  /\ handled \subseteq handled'
             /\ deadLettered \subseteq deadLettered'
             /\ abandoned \subseteq abandoned'
             /\ skipped \subseteq skipped'
             /\ Consumer!InFlight(v)
             /\ \A m \in Past' \ Past : current[v] = m
  BY <1>5 DEF Consumer!BackoffCancelled, Consumer!DeadLetterWritten,
     Consumer!DeadLetterFails, Consumer!HandlerSucceeds, Consumer!InFlight,
     Consumer!InFlightStates
<1>6. ASSUME NEW v \in Workers,
             \/ \E p \in Partitions : Consumer!Deliver(v, p)
             \/ Consumer!FetchCancelled(v) \/ Consumer!BackoffElapses(v)
             \/ Consumer!CommitSucceeds(v) \/ Consumer!CommitFails(v)
             \/ Consumer!HandlerFails(v)
      PROVE  UNCHANGED Consumer!history
  BY <1>6 DEF Consumer!Deliver, Consumer!FetchCancelled, Consumer!BackoffElapses,
     Consumer!CommitSucceeds, Consumer!CommitFails, Consumer!HandlerFails
<1>7. ASSUME NEW v \in Workers, Consumer!LoopStep(v) \/ Consumer!HandlerReturns(v)
      PROVE  \/ UNCHANGED Consumer!history
             \/ /\ handled \subseteq handled'
                /\ deadLettered \subseteq deadLettered'
                /\ abandoned \subseteq abandoned'
                /\ skipped \subseteq skipped'
                /\ Consumer!InFlight(v)
                /\ \A m \in Past' \ Past : current[v] = m
  BY <1>5, <1>6, <1>7 DEF Consumer!LoopStep, Consumer!HandlerReturns
<1> HIDE DEF Past
<1> QED BY <1>1, <1>2, <1>3, <1>4, <1>7 DEF Consumer!Next, Consumer!GroupStep

LEMMA TopicKept ==
    ASSUME TopicInv, Consumer!Next
    PROVE  InTopic'
<1>1. ASSUME NEW p \in Partitions
      PROVE  Len(log'[p]) <= MaxMessages
  <2>1. Len(log[p]) <= MaxMessages /\ log[p] \in Seq(Consumer!Payloads)
    BY DEF TopicInv, InTopic, Consumer!TypeOK
  <2>2. ASSUME NEW q \in Partitions, NEW x \in Consumer!Payloads, Consumer!Publish(q, x)
        PROVE  Len(log'[p]) <= MaxMessages
    <3>1. log' = [log EXCEPT ![q] = Append(@, x)] /\ Len(log[q]) < MaxMessages
      BY <2>2 DEF Consumer!Publish
    <3>2. CASE p = q
      <4>1. log'[p] = Append(log[p], x)
        BY <3>1, <3>2 DEF TopicInv, Consumer!TypeOK
      <4> QED BY <2>1, <3>1, <3>2, <4>1, BoundsAssumption
    <3>3. CASE p # q
      BY <2>1, <3>1, <3>3 DEF TopicInv, Consumer!TypeOK
    <3> QED BY <3>2, <3>3
  <2> QED BY <2>1, <2>2, OnlyPublishing
<1>2. ASSUME NEW w \in Workers, Consumer!InFlight(w)'
      PROVE  Place(current[w])'
  <2>1. CASE Consumer!InFlight(w) /\ UNCHANGED current[w]
    <3>1. Place(current[w])
      BY <2>1 DEF TopicInv, InTopic
    <3> QED BY <2>1, <3>1, PlacesKept DEF Place, Consumer!Published
  <2>2. ASSUME NEW p \in Partitions, Consumer!Deliver(w, p)
        PROVE  Place(current[w])'
    <3>1. /\ current'[w] = <<p, position[p]>>
          /\ position[p] \in Nat /\ position[p] < Len(log[p])
          /\ UNCHANGED log
          /\ Len(log[p]) \in Nat /\ Len(log[p]) <= MaxMessages
      BY <2>2 DEF Consumer!Deliver, TopicInv, InTopic, Consumer!TypeOK
    <3> QED BY <3>1, BoundsAssumption DEF Place, Consumer!Published
  <2> QED BY <1>2, <2>1, <2>2, HandsKept
<1>3. ASSUME NEW m \in Past'
      PROVE  Place(m)'
  <2>1. Place(m)
    <3>1. CASE m \in Past
      BY <3>1 DEF Past, TopicInv, InTopic
    <3>2. ASSUME NEW w \in Workers, Consumer!InFlight(w), current[w] = m
          PROVE  Place(m)
      BY <3>2 DEF TopicInv, InTopic
    <3>3. ASSUME NEW p \in Partitions, m \in {p} \X (0 .. Len(log[p]) - 1)
          PROVE  Place(m)
      <4>1. Len(log[p]) \in Nat /\ Len(log[p]) <= MaxMessages
        BY DEF TopicInv, InTopic, Consumer!TypeOK
      <4> QED BY <3>3, <4>1, BoundsAssumption DEF Place, Consumer!Published
    <3> QED BY <1>3, <3>1, <3>2, <3>3, HistoryGrows
  <2> QED BY <2>1, PlacesKept
<1> QED BY <1>1, <1>2, <1>3 DEF InTopic, Past

-----------------------------------------------------------------------------
(* Who attends to a record *)

\* A worker that leaves the loop of a message may not have stored its failure.
Waives(w) == stopping[w] \/ "store" \in Faults

\* A message some handler still has to accept, or to store the failure of.
Due(m) ==
    /\ ~Consumer!Accounted(m)
    /\ \A w \in Workers : pc[w] = "deadletter" /\ current[w] = m => Waives(w)

Tends(w, u) ==
    /\ \/ pc[w] \in {"handle", "backoff"}
       \/ pc[w] = "deadletter" /\ Waives(w)
    /\ UrlInHand(w) = u

Owes(r, u) ==
    /\ target[r] = u
    /\ step[r] \in {"dispatch", "mark", "fetch", "saveReady", "saveFailed"}

Tended(u) ==
    \/ \E r \in Requests : Owes(r, u)
    \/ \E m \in JobsOf(u) : Due(m)
    \/ \E w \in Workers : Tends(w, u)

NothingStranded == \A u \in Urls : InProgress(u) => Tended(u) \/ Forsaken(u)

\* A request that broke off is over.
Over == \A r \in Requests : brokenAt[r] # "none" => step[r] \in {"done", "dead"}

Everything == IInv /\ TopicInv /\ Over

LEMMA JobsAre ==
    ASSUME NEW u, NEW m
    PROVE  /\ m \in JobsOf(u) <=> Place(m) /\ Consumer!Payload(m) = u
           /\ m \in JobsOf(u)' <=> Place(m)' /\ Consumer!Payload(m)' = u
BY DEF JobsOf, Place, Consumer!Published, Consumer!Payload

LEMMA JobsKept ==
    ASSUME TopicInv, Consumer!Next \/ UNCHANGED Consumer!vars, NEW u
    PROVE  JobsOf(u) \subseteq JobsOf(u)'
<1>1. CASE Consumer!Next
  BY <1>1, PlacesKept, JobsAre
<1>2. CASE UNCHANGED Consumer!vars
  BY <1>2 DEF Consumer!vars, Consumer!broker, JobsOf, Consumer!Published, Consumer!Payload
<1> QED BY <1>1, <1>2

LEMMA UnderWay ==
    ASSUME NEW q, Service!StoreStep(q)
    PROVE  step[q] \in Service!Calls
BY DEF Service!StoreStep, Service!Find, Service!FindFails, Service!Upsert,
       Service!UpsertFails, Service!Mark, Service!InlineFetch, Service!SaveFailed,
       Service!SaveReady, Service!SaveReadyFails, Service!Reread, Service!RereadFails,
       Service!Calls

\* How a step of a request on the store ends: the request goes on, it answers, or it
\* gives up.
LEMMA StoreStepEnds ==
    ASSUME NEW r, Service!StoreStep(r)
    PROVE  \/ \E next \in Service!Calls \ {"reread"} : Service!GoOn(r, next)
           \/ Service!SaveReady(r) /\ Service!GoOn(r, "reread")
           \/ /\ step' = [step EXCEPT ![r] = "upsert"]
              /\ UNCHANGED <<op, target, cancelled, reply, brokenAt>>
           \/ \E code, shows : Service!Answer(r, code, shows) /\ UNCHANGED brokenAt
           \/ \E code : Service!GiveUp(r, code)
<1>1. CASE Service!Find(r)
  BY <1>1 DEF Service!Find
<1>2. CASE Service!Upsert(r)
  BY <1>2 DEF Service!Upsert, Service!AfterUpsert, Service!Calls
<1>3. CASE Service!Mark(r) \/ Service!InlineFetch(r) \/ Service!SaveReady(r)
  BY <1>3 DEF Service!Mark, Service!InlineFetch, Service!SaveReady, Service!Calls
<1>4. CASE Service!SaveFailed(r) \/ Service!Reread(r)
  BY <1>4 DEF Service!SaveFailed, Service!Reread
<1>5. CASE \/ Service!FindFails(r) \/ Service!UpsertFails(r)
           \/ Service!SaveReadyFails(r) \/ Service!RereadFails(r)
  BY <1>5 DEF Service!FindFails, Service!UpsertFails, Service!SaveReadyFails,
     Service!RereadFails
<1> QED BY <1>1, <1>2, <1>3, <1>4, <1>5 DEF Service!StoreStep

\* It is about r alone, and r breaks off only to be over.
LEMMA StoreStepFrame ==
    ASSUME NEW r, Service!StoreStep(r)
    PROVE  /\ UNCHANGED <<target, cancelled>>
           /\ \E s : step' = [step EXCEPT ![r] = s]
           /\ \/ UNCHANGED reply
              \/ \E answer : reply' = [reply EXCEPT ![r] = answer]
           /\ \/ UNCHANGED brokenAt
              \/ /\ step' = [step EXCEPT ![r] = "done"]
                 /\ brokenAt' = [brokenAt EXCEPT ![r] = step[r]]
<1>1. ASSUME NEW next, Service!GoOn(r, next)
      PROVE  /\ UNCHANGED <<target, cancelled, reply, brokenAt>>
             /\ step' = [step EXCEPT ![r] = next]
  BY <1>1 DEF Service!GoOn
<1>2. ASSUME NEW code, NEW shows, Service!Answer(r, code, shows)
      PROVE  /\ UNCHANGED <<target, cancelled>>
             /\ step' = [step EXCEPT ![r] = "done"]
             /\ reply' = [reply EXCEPT ![r] = [code |-> code, shows |-> shows]]
  BY <1>2 DEF Service!Answer
<1>3. ASSUME NEW code, Service!GiveUp(r, code)
      PROVE  /\ Service!Answer(r, code, "nothing")
             /\ brokenAt' = [brokenAt EXCEPT ![r] = step[r]]
  BY <1>3 DEF Service!GiveUp
<1> QED BY <1>1, <1>2, <1>3, StoreStepEnds

\* A request that is over stays as it is.
LEMMA EndedKept ==
    ASSUME IInv, [Next]_vars, NEW r \in Requests, step[r] \in {"done", "dead"}
    PROVE  UNCHANGED <<brokenAt[r], step[r], target[r], cancelled[r], reply[r]>>
<1> USE DEF IInv, RequestInv, Service!ServiceTypeOK
<1>1. ASSUME NEW q \in Requests, RequestStep(q)
      PROVE  UNCHANGED <<brokenAt[r], step[r], target[r], cancelled[r], reply[r]>>
  <2> USE DEF Service!GoOn, Service!Answer, Service!GiveUp
  <2>1. CASE Service!StoreStep(q)
    <3>1. q # r
      BY <2>1, UnderWay DEF Service!Calls
    <3> QED BY <2>1, <3>1, StoreStepFrame
  <2>2. CASE Service!ClientStep(q)
    BY <2>2 DEF Service!ClientStep, Service!Arrive, Service!Reject, Service!Cancel,
       Service!Active, Service!Calls
  <2>3. CASE Service!Dispatched(q) \/ Service!DispatchFails(q)
    BY <2>3 DEF Service!Dispatched, Service!DispatchFails
  <2>4. CASE WriterSends(q)
    BY <2>4 DEF WriterSends, requests
  <2> QED
    BY <1>1, <2>1, <2>2, <2>3, <2>4 DEF RequestStep, ApiStep, PublishRequest, PublishFails
<1>2. CASE ApiCrash
  BY <1>2 DEF ApiCrash, Service!ApiCrash, Service!Active, Service!Calls
<1>3. CASE UNCHANGED requests
  BY <1>3 DEF requests
<1>4. ASSUME NEW w \in Workers, WorkerStep(w)
      PROVE  UNCHANGED requests
  BY <1>4, WorkerWrites
<1>5. GroupStep \/ UNCHANGED vars => UNCHANGED requests
  BY DEF GroupStep, vars
<1> QED BY <1>1, <1>2, <1>3, <1>4, <1>5 DEF Next

LEMMA BrokenKept ==
    ASSUME IInv, Over, [Next]_vars, NEW r \in Requests, brokenAt[r] # "none"
    PROVE  UNCHANGED <<brokenAt[r], step[r], target[r], cancelled[r]>>
BY EndedKept DEF Over

LEMMA OverKept ==
    ASSUME IInv, Over, [Next]_vars
    PROVE  Over'
<1>1. SUFFICES ASSUME NEW r \in Requests, brokenAt[r] = "none", brokenAt'[r] # "none"
               PROVE  step'[r] \in {"done", "dead"}
  BY BrokenKept DEF Over
<1> USE DEF IInv, RequestInv, Service!ServiceTypeOK
<1>2. ASSUME NEW q \in Requests, RequestStep(q)
      PROVE  step'[r] \in {"done", "dead"}
  <2> USE DEF Service!GoOn, Service!Answer, Service!GiveUp
  <2>1. CASE Service!StoreStep(q)
    BY <1>1, <2>1, StoreStepFrame
  <2>2. CASE Service!ClientStep(q)
    BY <1>1, <2>2 DEF Service!ClientStep, Service!Arrive, Service!Reject, Service!Cancel
  <2>3. CASE Service!Dispatched(q) \/ Service!DispatchFails(q)
    BY <1>1, <2>3 DEF Service!Dispatched, Service!DispatchFails
  <2>4. CASE WriterSends(q)
    BY <1>1, <2>4 DEF WriterSends, requests
  <2> QED
    BY <1>2, <2>1, <2>2, <2>3, <2>4 DEF RequestStep, ApiStep, PublishRequest, PublishFails
<1>3. CASE ApiCrash
  BY <1>1, <1>3 DEF ApiCrash, Service!ApiCrash
<1>4. CASE UNCHANGED requests
  BY <1>1, <1>4 DEF requests
<1>5. ASSUME NEW w \in Workers, WorkerStep(w)
      PROVE  UNCHANGED requests
  BY <1>5, WorkerWrites
<1>6. GroupStep \/ UNCHANGED vars => UNCHANGED requests
  BY DEF GroupStep, vars
<1> QED BY <1>2, <1>3, <1>4, <1>5, <1>6 DEF Next

\* What has forsaken a record is never undone.
LEMMA ForsakenKept ==
    ASSUME Everything, [Next]_vars, NEW u \in Urls, Forsaken(u)
    PROVE  Forsaken(u)'
<1> USE DEF Everything
<1>1. JobsOf(u) \subseteq JobsOf(u)'
  BY StepIsLoopStep, JobsKept
<1>2. /\ abandoned \subseteq abandoned'
      /\ deadLettered \subseteq deadLettered'
      /\ skipped \subseteq skipped'
  BY StepIsLoopStep, HistoryGrows DEF Consumer!vars, Consumer!history
<1>3. interrupted \subseteq interrupted'
  <2>1. ASSUME NEW r \in Requests, RequestStep(r)
        PROVE  UNCHANGED interrupted
    BY <2>1 DEF RequestStep, ApiStep, PublishRequest, PublishFails, WriterSends
  <2>2. ASSUME NEW w \in Workers, WorkerStep(w)
        PROVE  interrupted \subseteq interrupted'
    BY <2>2 DEF WorkerStep, HandlerStep, HandlerReturns, LoopStep, ProcessRuns, ProcessEnds
  <2> QED BY <2>1, <2>2 DEF Next, ApiCrash, GroupStep, vars
<1>4. ASSUME NEW r \in Requests, target[r] = u, GaveUp(r)
      PROVE  Forsaken(u)'
  <2>1. UNCHANGED <<brokenAt[r], target[r], cancelled[r]>>
    BY <1>4, BrokenKept DEF GaveUp
  <2> QED BY <1>4, <2>1 DEF Forsaken, GaveUp, Service!Fails
<1> QED BY <1>1, <1>2, <1>3, <1>4 DEF Forsaken

-----------------------------------------------------------------------------
(* Steps of the workers *)

\* A step of w leaves the other workers alone, and the requests and the log.
LEMMA OthersStay ==
    ASSUME Everything, NEW w \in Workers, WorkerStep(w)
    PROVE  /\ UNCHANGED <<requests, log>>
           /\ \A v \in Workers \ {w} : UNCHANGED <<pc[v], current[v], stopping[v]>>
<1>1. UNCHANGED <<requests, log>>
  BY WorkerWrites
<1> USE DEF Everything, TopicInv, Consumer!TypeOK
<1>2. CASE HandlerStep(w)
  BY <1>1, <1>2 DEF HandlerStep, topic
<1>3. CASE HandlerReturns(w)
  BY <1>1, <1>3 DEF HandlerReturns, Consumer!HandlerSucceeds, Consumer!HandlerFails
<1>4. CASE LoopStep(w)
  BY <1>1, <1>4
     DEF LoopStep, Delivers, Waits, SendsLetter, Commits, Consumer!Deliver,
         Consumer!FetchCancelled, Consumer!BackoffElapses, Consumer!BackoffCancelled,
         Consumer!DeadLetterWritten, Consumer!DeadLetterFails, Consumer!CommitSucceeds,
         Consumer!CommitFails, Consumer!NextIteration
<1>5. CASE ProcessRuns(w) \/ ProcessEnds(w)
  BY <1>1, <1>5
     DEF ProcessRuns, ProcessEnds, Consumer!Start, Consumer!Signal, Consumer!Exit,
         Consumer!Crash, Consumer!Vanish
<1> QED BY <1>2, <1>3, <1>4, <1>5 DEF WorkerStep

\* What a step of w must not do for u to stay tended.
LEMMA TendedByOthers ==
    ASSUME Everything, NEW w \in Workers, WorkerStep(w), NEW u, Tended(u),
           Tends(w, u) => Tends(w, u)',
           \A m \in JobsOf(u) : Due(m) =>
               /\ ~Consumer!Accounted(m)'
               /\ pc'[w] = "deadletter" /\ current'[w] = m => Waives(w)'
    PROVE  Tended(u)'
<1> USE OthersStay
<1>1. ASSUME NEW r \in Requests, Owes(r, u)
      PROVE  Owes(r, u)'
  BY <1>1 DEF Owes, requests
<1>2. ASSUME NEW v \in Workers, Tends(v, u)
      PROVE  Tends(v, u)'
  BY <1>2 DEF Tends, UrlInHand, Consumer!Payload, Waives
<1>3. ASSUME NEW m \in JobsOf(u), Due(m)
      PROVE  m \in JobsOf(u)' /\ Due(m)'
  <2>1. m \in JobsOf(u)'
    BY DEF JobsOf, Consumer!Published, Consumer!Payload
  <2>2. Due(m)'
    BY <1>3 DEF Due, Waives
  <2> QED BY <2>1, <2>2
<1> QED BY <1>1, <1>2, <1>3 DEF Tended

\* A message in a hand is one of the jobs of its URL.
LEMMA HandIsJob ==
    ASSUME Everything, NEW w \in Workers, Consumer!InFlight(w)
    PROVE  current[w] \in JobsOf(UrlInHand(w))
BY JobsAre DEF Everything, TopicInv, InTopic, UrlInHand

LEMMA LoopStrandsNothing ==
    ASSUME Everything, NEW w \in Workers, LoopStep(w), NEW u \in Urls, Tended(u)
    PROVE  Tended(u)' \/ Forsaken(u)'
<1>1. WorkerStep(w)
  BY DEF WorkerStep
<1>2. [Next]_vars
  BY <1>1 DEF Next
<1>3. JobsOf(u) \subseteq JobsOf(u)'
  BY <1>2, StepIsLoopStep, JobsKept DEF Everything
<1> USE DEF Everything, TopicInv, Consumer!TypeOK
<1>4. CASE Consumer!BackoffCancelled(w)
  <2>1. current[w] \in JobsOf(u) => Forsaken(u)'
    BY <1>3, <1>4 DEF Consumer!BackoffCancelled, Forsaken
  <2>2. Tends(w, u) => current[w] \in JobsOf(u)
    BY <1>4, HandIsJob DEF Consumer!BackoffCancelled, Consumer!InFlight,
       Consumer!InFlightStates, Tends
  <2>3. ASSUME NEW m \in JobsOf(u), Due(m), m # current[w]
        PROVE  ~Consumer!Accounted(m)' /\ pc'[w] # "deadletter"
    BY <1>4, <2>3 DEF Consumer!BackoffCancelled, Consumer!NextIteration, Due,
       Consumer!Accounted, Consumer!Settled
  <2> QED BY <1>1, <2>1, <2>2, <2>3, TendedByOthers
<1>5. CASE Consumer!DeadLetterFails(w)
  <2>1. current[w] \in JobsOf(u) => Forsaken(u)'
    BY <1>3, <1>5 DEF Consumer!DeadLetterFails, Forsaken
  <2>2. Tends(w, u) => current[w] \in JobsOf(u)
    BY <1>5, HandIsJob DEF Consumer!DeadLetterFails, Consumer!InFlight,
       Consumer!InFlightStates, Tends
  <2>3. ASSUME NEW m \in JobsOf(u), Due(m), m # current[w]
        PROVE  ~Consumer!Accounted(m)' /\ pc'[w] # "deadletter"
    BY <1>5, <2>3 DEF Consumer!DeadLetterFails, Consumer!NextIteration, Due,
       Consumer!Accounted, Consumer!Settled
  <2> QED BY <1>1, <2>1, <2>2, <2>3, TendedByOthers
<1>6. CASE Consumer!DeadLetterWritten(w)
  <2>1. current[w] \in JobsOf(u) /\ "store" \in Faults => Forsaken(u)'
    BY <1>3, <1>6 DEF Consumer!DeadLetterWritten, Forsaken
  <2>2. ~stopping[w] /\ pc[w] = "deadletter"
    BY <1>6 DEF Consumer!DeadLetterWritten
  <2>3. Tends(w, u) => current[w] \in JobsOf(u) /\ "store" \in Faults
    BY <2>2, HandIsJob DEF Consumer!InFlight, Consumer!InFlightStates, Tends, Waives
  <2>4. ASSUME NEW m \in JobsOf(u), Due(m)
        PROVE  m = current[w] => "store" \in Faults
    BY <2>2, <2>4 DEF Due, Waives
  <2>5. ASSUME NEW m \in JobsOf(u), Due(m), m # current[w]
        PROVE  ~Consumer!Accounted(m)' /\ pc'[w] # "deadletter"
    BY <1>6, <2>5 DEF Consumer!DeadLetterWritten, Due, Consumer!Accounted,
       Consumer!Settled
  <2> QED BY <1>1, <2>1, <2>3, <2>4, <2>5, TendedByOthers
<1>7. CASE Consumer!BackoffElapses(w)
  <2>1. Tends(w, u) => Tends(w, u)'
    BY <1>7 DEF Consumer!BackoffElapses, Tends, UrlInHand, Consumer!Payload,
       Consumer!broker
  <2>2. ASSUME NEW m \in JobsOf(u), Due(m)
        PROVE  ~Consumer!Accounted(m)' /\ pc'[w] # "deadletter"
    BY <1>7, <2>2 DEF Consumer!BackoffElapses, Due, Consumer!Accounted,
       Consumer!Settled, Consumer!history
  <2> QED BY <1>1, <2>1, <2>2, TendedByOthers
<1>8. CASE \/ Delivers(w) \/ Consumer!FetchCancelled(w)
           \/ Consumer!CommitSucceeds(w) \/ Consumer!CommitFails(w)
  <2>1. ~Tends(w, u)
    BY <1>8 DEF Delivers, Consumer!Deliver, Consumer!FetchCancelled,
       Consumer!CommitSucceeds, Consumer!CommitFails, Tends
  <2>2. ASSUME NEW m \in JobsOf(u), Due(m)
        PROVE  ~Consumer!Accounted(m)' /\ pc'[w] # "deadletter"
    BY <1>8, <2>2 DEF Delivers, Consumer!Deliver, Consumer!FetchCancelled,
       Consumer!CommitSucceeds, Consumer!CommitFails, Consumer!NextIteration, Due,
       Consumer!Accounted, Consumer!Settled, Consumer!history
  <2> QED BY <1>1, <2>1, <2>2, TendedByOthers
<1> QED
  BY <1>4, <1>5, <1>6, <1>7, <1>8 DEF LoopStep, Waits, SendsLetter, Commits

LEMMA ProcessStrandsNothing ==
    ASSUME Everything, NEW w \in Workers, ProcessRuns(w) \/ ProcessEnds(w),
           NEW u \in Urls, Tended(u)
    PROVE  Tended(u)' \/ Forsaken(u)'
<1>1. WorkerStep(w)
  BY DEF WorkerStep
<1> USE DEF Everything, TopicInv, Consumer!TypeOK
<1>2. ASSUME NEW m \in JobsOf(u), Due(m)
      PROVE  ~Consumer!Accounted(m)'
  BY <1>2 DEF ProcessRuns, ProcessEnds, Consumer!Start, Consumer!Signal, Consumer!Exit,
     Consumer!Crash, Consumer!Vanish, Due, Consumer!Accounted, Consumer!Settled,
     Consumer!history
<1>3. CASE Consumer!Start(w)
  BY <1>1, <1>2, <1>3, TendedByOthers DEF Consumer!Start, Tends
<1>4. CASE Consumer!Signal(w)
  BY <1>1, <1>2, <1>4, TendedByOthers
     DEF Consumer!Signal, Tends, Waives, UrlInHand, Consumer!Payload, Consumer!broker
<1>5. CASE ProcessEnds(w)
  <2>1. pc'[w] = "down"
    BY <1>5 DEF ProcessEnds, Consumer!Exit, Consumer!Crash, Consumer!Vanish
  <2>2. Tends(w, u) => Forsaken(u)'
    BY <1>5 DEF ProcessEnds, Tends, InHandOf, Forsaken
  <2> QED BY <1>1, <1>2, <2>1, <2>2, TendedByOthers
<1> QED BY <1>3, <1>4, <1>5 DEF ProcessRuns

\* A write of one URL leaves the others in the state they are in.
LEMMA WriteOfOne ==
    ASSUME Everything, NEW v, NEW u \in Urls, u # v,
           UNCHANGED records \/ Writes(v), InProgress(u)'
    PROVE  InProgress(u)
BY DEF Everything, IInv, StoreInv, Store!StoreTypeOK, Writes, Store!UpsertPending,
       Store!UpdateStatus, Store!UpdateReady, InProgress, Store!InProgress,
       Store!StatusOf

\* The two writes that end a fetch.
LEMMA FinalWrites ==
    ASSUME Everything, NEW u \in Urls,
           Store!UpdateStatus(u, "failed") \/ Store!UpdateReady(u)
    PROVE  ~InProgress(u)'
<1> USE AbsentAssumption DEF Everything, IInv, StoreInv, Store!StoreTypeOK
<1>1. CASE records[u] = Absent
  BY <1>1 DEF Store!UpdateStatus, Store!UpdateReady, InProgress, Store!InProgress,
     Store!StatusOf, Store!Statuses
<1>2. CASE records[u] # Absent
  <2>1. records[u] \in Store!Record
    BY <1>2
  <2>2. \E doc \in Store!Record : /\ records' = [records EXCEPT ![u] = doc]
                                  /\ doc.status \in {"failed", "ready"}
    <3>1. CASE Store!UpdateStatus(u, "failed")
      <4> DEFINE n   == records[u].retryCount + 1
                 doc == [records[u] EXCEPT !.status = "failed", !.retryCount = n]
      <4>1. records' = [records EXCEPT ![u] = doc]
        BY <1>2, <2>1, <3>1 DEF Store!UpdateStatus
      <4>2. n \in Nat
        BY <2>1 DEF Store!Record
      <4> HIDE DEF n
      <4>3. doc \in Store!Record /\ doc.status = "failed"
        BY <2>1, <4>2, Documents DEF Store!Record, Store!Statuses
      <4> HIDE DEF doc
      <4> QED BY <4>1, <4>3
    <3>2. CASE Store!UpdateReady(u)
      <4> DEFINE doc == [records[u] EXCEPT !.status = "ready", !.result = TRUE]
      <4>1. records' = [records EXCEPT ![u] = doc]
        BY <1>2, <2>1, <3>2 DEF Store!UpdateReady
      <4>2. doc \in Store!Record /\ doc.status = "ready"
        BY <2>1, Documents DEF Store!Record, Store!Statuses
      <4> HIDE DEF doc
      <4> QED BY <4>1, <4>2
    <3> QED BY <3>1, <3>2
  <2> QED BY <2>1, <2>2 DEF InProgress, Store!InProgress, Store!StatusOf
<1> QED BY <1>1, <1>2

LEMMA HandlerStrandsNothing ==
    ASSUME Everything, NothingStranded, NEW w \in Workers,
           HandlerStep(w) \/ HandlerReturns(w),
           NEW u \in Urls, InProgress(u)', ~Forsaken(u)'
    PROVE  Tended(u)'
<1>1. WorkerStep(w) /\ [Next]_vars
  BY DEF WorkerStep, Next
<1>2. pc[w] = "handle"
  BY DEF HandlerStep, HandlerReturns, Working, Consumer!HandlerSucceeds,
     Consumer!HandlerFails
<1> DEFINE v == UrlInHand(w)
<1> USE DEF Everything, TopicInv, Consumer!TypeOK
<1>3. UNCHANGED records \/ Writes(v)
  BY HandlerWrites
     DEF HandlerStep, HandlerReturns, Handler!MarkFetching, Handler!Fetch,
         Handler!ResultStored, Handler!ReturnsError, Handler!ResultLost,
         Handler!FailureStored
<1>4. v \in Urls
  BY <1>2, HandIsJob, JobsAre
     DEF Consumer!InFlight, Consumer!InFlightStates, UrlInHand, Consumer!Payload, Place,
         Consumer!Published, IInv, LogOK
<1>5. UNCHANGED <<log, current, stopping>>
  BY DEF HandlerStep, HandlerReturns, Consumer!HandlerSucceeds, Consumer!HandlerFails,
     topic, Consumer!broker
<1>6. v' = v
  BY <1>5 DEF UrlInHand, Consumer!Payload
<1> HIDE DEF v
<1>7. CASE u # v
  <2>1. Tended(u)
    BY <1>1, <1>3, <1>7, WriteOfOne, ForsakenKept DEF NothingStranded
  <2>2. ~Tends(w, u)
    BY <1>7 DEF Tends, v
  <2>3. ASSUME NEW m \in JobsOf(u), Due(m)
        PROVE  ~Consumer!Accounted(m)' /\ current'[w] # m
    <3>1. m # current[w]
      BY <1>7, JobsAre DEF v, UrlInHand
    <3>2. handled' \in {handled, handled \cup {current[w]}}
          /\ UNCHANGED <<deadLettered, abandoned, skipped>>
      BY DEF HandlerStep, HandlerReturns, Consumer!HandlerSucceeds,
         Consumer!HandlerFails, topic, Consumer!history
    <3> QED
      BY <1>5, <2>3, <3>1, <3>2 DEF Due, Consumer!Accounted, Consumer!Settled
  <2> QED BY <1>1, <2>1, <2>2, <2>3, TendedByOthers
<1>8. CASE u = v
  <2>1. SUFFICES Tends(w, u)'
    BY DEF Tended
  <2>2. SUFFICES \/ pc'[w] \in {"handle", "backoff"}
                 \/ pc'[w] = "deadletter" /\ Waives(w)'
    BY <1>6, <1>8 DEF Tends, v
  <2>3. CASE HandlerStep(w)
    BY <1>2, <2>3 DEF HandlerStep, topic
  <2>4. CASE HandlerReturns(w)
    <3>1. ~Handler!ResultStored(w, v, stopping[w])
      <4>1. Handler!UpdateReady(v) => Store!UpdateReady(v)
        BY DEF Handler!UpdateReady, Store!UpdateReady
      <4> QED BY <1>4, <1>8, <4>1, FinalWrites DEF Handler!ResultStored
    <3>2. Consumer!HandlerFails(w) /\ Handler!ReturnsError(w, v, stopping[w])
      BY <2>4, <3>1 DEF HandlerReturns, v
    <3>3. Waives(w)
      <4>1. Handler!UpdateStatus(v, "failed") => Store!UpdateStatus(v, "failed")
        BY DEF Handler!UpdateStatus, Store!UpdateStatus
      <4>2. ~Handler!UpdateStatus(v, "failed")
        BY <1>4, <1>8, <4>1, FinalWrites
      <4> QED
        BY <3>2, <4>2 DEF Handler!ReturnsError, Handler!ResultLost,
           Handler!FailureStored, Handler!CallFails, Waives
    <3> QED BY <1>5, <3>2, <3>3 DEF Consumer!HandlerFails, Waives
  <2> QED BY <2>3, <2>4
<1> QED BY <1>7, <1>8

-----------------------------------------------------------------------------
(* Steps of the group and of the API *)

LEMMA GroupStrandsNothing ==
    ASSUME Everything, GroupStep, NEW u \in Urls, Tended(u)
    PROVE  Tended(u)' \/ Forsaken(u)'
<1>1. /\ UNCHANGED <<log, pc, current, stopping, requests>>
      /\ UNCHANGED <<handled, deadLettered, abandoned>>
  BY DEF GroupStep, Consumer!GroupStep, Consumer!Rebalance, Consumer!SessionTimeout,
     Consumer!workers, Consumer!history
<1>2. ASSUME NEW r \in Requests, Owes(r, u)
      PROVE  Owes(r, u)'
  BY <1>1, <1>2 DEF Owes, requests
<1>3. ASSUME NEW v \in Workers, Tends(v, u)
      PROVE  Tends(v, u)'
  BY <1>1, <1>3 DEF Tends, UrlInHand, Consumer!Payload, Waives
<1>4. ASSUME NEW m \in JobsOf(u), Due(m)
      PROVE  Tended(u)' \/ Forsaken(u)'
  <2>1. m \in JobsOf(u)'
    BY <1>1 DEF JobsOf, Consumer!Published, Consumer!Payload
  <2>2. CASE m \in skipped'
    BY <2>1, <2>2 DEF Forsaken
  <2>3. CASE m \notin skipped'
    <3>1. Due(m)'
      BY <1>1, <1>4, <2>3 DEF Due, Waives, Consumer!Accounted, Consumer!Settled
    <3> QED BY <2>1, <3>1 DEF Tended
  <2> QED BY <2>2, <2>3
<1> QED BY <1>2, <1>3, <1>4 DEF Tended

\* Steps of the API leave the loops alone; the log may grow.
LEMMA ApiStays ==
    ASSUME Everything, NEW u,
           ApiCrash \/ \E r \in Requests : RequestStep(r)
    PROVE  /\ \A v \in Workers : Tends(v, u) => Tends(v, u)'
           /\ \A m \in JobsOf(u) : Due(m) => m \in JobsOf(u)' /\ Due(m)'
<1>1. [Next]_vars
  BY DEF Next
<1>2. Consumer!Next \/ UNCHANGED Consumer!vars
  BY <1>1, StepIsLoopStep DEF Everything
<1>3. UNCHANGED <<pc, current, stopping, handled, deadLettered, abandoned, skipped>>
  BY DEF ApiCrash, RequestStep, ApiStep, PublishRequest, PublishFails, WriterSends,
     Consumer!Publish, Consumer!workers, Consumer!history, topic
<1>4. ASSUME NEW v \in Workers, Tends(v, u)
      PROVE  Tends(v, u)'
  <2>1. Consumer!InFlight(v)
    BY <1>4 DEF Tends, Consumer!InFlight, Consumer!InFlightStates
  <2>2. current[v] \in JobsOf(u) /\ current'[v] = current[v]
    BY <1>3, <1>4, <2>1, HandIsJob DEF Tends
  <2>3. current[v] \in JobsOf(u)'
    BY <1>2, <2>2, JobsKept DEF Everything
  <2>4. UrlInHand(v)' = u
    BY <2>2, <2>3, JobsAre DEF UrlInHand, Consumer!Payload
  <2> QED BY <1>3, <1>4, <2>4 DEF Tends, Waives
<1>5. ASSUME NEW m \in JobsOf(u), Due(m)
      PROVE  m \in JobsOf(u)' /\ Due(m)'
  <2>1. m \in JobsOf(u)'
    BY <1>2, JobsKept DEF Everything
  <2>2. Due(m)'
    BY <1>3, <1>5 DEF Due, Waives, Consumer!Accounted, Consumer!Settled
  <2> QED BY <2>1, <2>2
<1> QED BY <1>4, <1>5

LEMMA ApiCrashStrandsNothing ==
    ASSUME Everything, ApiCrash, NEW u \in Urls, Tended(u)
    PROVE  Tended(u)' \/ Forsaken(u)'
<1>1. ASSUME NEW r \in Requests, Owes(r, u)
      PROVE  Forsaken(u)'
  <2>1. /\ Service!Active(r)
        /\ step[r] \in {"dispatch", "mark", "fetch", "saveFailed", "saveReady"}
    BY <1>1 DEF Owes, Service!Active, Service!Calls
  <2>2. target'[r] = u /\ brokenAt'[r] = step[r]
    BY <1>1, <2>1 DEF ApiCrash, Service!ApiCrash, Owes
  <2> QED BY <2>1, <2>2 DEF Forsaken, GaveUp
<1> QED BY <1>1, ApiStays DEF Tended

\* The other requests stay where they are.
LEMMA OneRequest ==
    ASSUME Everything, NEW r \in Requests, RequestStep(r), NEW q \in Requests, q # r
    PROVE  UNCHANGED <<target[q], step[q]>>
<1> USE DEF Everything, IInv, RequestInv, Service!ServiceTypeOK, Service!GoOn,
        Service!Answer, Service!GiveUp
<1>1. CASE Service!StoreStep(r)
  BY <1>1, StoreStepFrame
<1>2. CASE Service!ClientStep(r)
  BY <1>2 DEF Service!ClientStep, Service!Arrive, Service!Reject, Service!Cancel
<1>3. CASE Service!Dispatched(r) \/ Service!DispatchFails(r)
  BY <1>3 DEF Service!Dispatched, Service!DispatchFails
<1>4. CASE WriterSends(r)
  BY <1>4 DEF WriterSends, requests
<1> QED BY <1>1, <1>2, <1>3, <1>4 DEF RequestStep, ApiStep, PublishRequest, PublishFails

\* A message just published is due.
LEMMA NewIsDue ==
    ASSUME Everything, NEW p \in Partitions, NEW u \in Urls, Consumer!Publish(p, u)
    PROVE  \E m \in JobsOf(u)' : Due(m)'
<1> USE DEF Everything, TopicInv, Consumer!TypeOK
<1>1. PICK n \in Nat : n = Len(log[p])
  OBVIOUS
<1> DEFINE m == <<p, n>>
<1>2. Place(m)' /\ Consumer!Payload(m)' = u /\ ~Place(m)
  <2>1. /\ log[p] \in Seq(Consumer!Payloads)
        /\ log'[p] = Append(log[p], u)
        /\ n < MaxMessages
    BY <1>1 DEF Consumer!Publish
  <2>2. n \in 0 .. MaxMessages - 1 /\ n < Len(log'[p]) /\ log'[p][n + 1] = u
    BY <1>1, <2>1, BoundsAssumption
  <2> QED BY <1>1, <2>2 DEF Place, Consumer!Published, Consumer!Payload
<1> HIDE DEF m
<1>3. UNCHANGED <<pc, current, stopping, handled, deadLettered, abandoned, skipped>>
  BY DEF Consumer!Publish, Consumer!workers, Consumer!history
<1>4. m \notin handled \cup deadLettered \cup abandoned \cup skipped
  BY <1>2 DEF InTopic
<1>5. \A w \in Workers : pc[w] = "deadletter" => current[w] # m
  BY <1>2 DEF InTopic, Consumer!InFlight, Consumer!InFlightStates
<1>6. Due(m)'
  BY <1>3, <1>4, <1>5 DEF Due, Consumer!Accounted, Consumer!Settled
<1> QED BY <1>2, <1>6, JobsAre

LEMMA RequestStrandsNothing ==
    ASSUME Everything, NothingStranded, NEW r \in Requests, RequestStep(r),
           NEW u \in Urls, InProgress(u)', ~Forsaken(u)'
    PROVE  Tended(u)'
<1>1. [Next]_vars
  BY DEF Next
<1> USE DEF Everything, IInv, RequestInv, Service!ServiceTypeOK, Service!GoOn,
        Service!Answer, Service!GiveUp
<1>2. InProgress(u) => Tended(u)
  BY <1>1, ForsakenKept DEF NothingStranded
\* It is enough that r has no part in it, or has one that stays.
<1>3. ASSUME InProgress(u), Owes(r, u) => Owes(r, u)'
      PROVE  Tended(u)'
  <2>1. \A q \in Requests : Owes(q, u) => Owes(q, u)'
    BY <1>3, OneRequest DEF Owes
  <2> QED BY <1>2, <1>3, <2>1, ApiStays DEF Tended
<1>4. ~GaveUp(r)' \/ target'[r] # u
  BY DEF Forsaken
<1>5. UNCHANGED records => InProgress(u)
  BY DEF InProgress, Store!InProgress, Store!StatusOf
<1>6. CASE Service!StoreStep(r)
  <2>1. target[r] \in Urls /\ UNCHANGED target
    BY <1>6 DEF Targeted, Service!StoreStep, Service!Find, Service!FindFails,
       Service!Upsert, Service!UpsertFails, Service!Mark, Service!InlineFetch,
       Service!SaveFailed, Service!SaveReady, Service!SaveReadyFails, Service!Reread,
       Service!RereadFails, Service!Calls
  <2>2. CASE target[r] # u
    <3>1. UNCHANGED records \/ Writes(target[r])
      BY <1>6, ServiceWrites DEF Service!StoreStep, Service!Find, Service!FindFails,
         Service!Upsert, Service!UpsertFails, Service!Mark, Service!InlineFetch,
         Service!SaveFailed, Service!SaveReady, Service!SaveReadyFails, Service!Reread,
         Service!RereadFails
    <3> QED BY <1>3, <2>2, <3>1, WriteOfOne DEF Owes
  <2>3. CASE target[r] = u
    <3>1. CASE Service!Find(r) \/ Service!FindFails(r) \/ Service!Reread(r)
                   \/ Service!RereadFails(r)
      <4>1. UNCHANGED records /\ ~Owes(r, u)
        BY <3>1 DEF Service!Find, Service!FindFails, Service!Reread, Service!RereadFails,
           Owes
      <4> QED BY <1>3, <1>5, <4>1
    <3>2. CASE Service!Upsert(r) \/ Service!Mark(r) \/ Service!InlineFetch(r)
      <4>1. step'[r] \in {"dispatch", "mark", "fetch", "saveReady", "saveFailed"}
        BY <3>2 DEF Service!Upsert, Service!AfterUpsert, Service!Mark,
           Service!InlineFetch
      <4> QED BY <2>1, <2>3, <4>1 DEF Owes, Tended
    <3>3. CASE Service!UpsertFails(r)
      <4>1. brokenAt'[r] = "upsert" /\ UNCHANGED cancelled
        BY <3>3 DEF Service!UpsertFails
      <4>2. ~Service!Fails(r, "store")
        BY <1>4, <2>1, <2>3, <4>1 DEF GaveUp, Service!Fails
      <4>3. UNCHANGED records /\ ~Owes(r, u)
        BY <3>3, <4>2 DEF Service!UpsertFails, Owes
      <4> QED BY <1>3, <1>5, <4>3
    <3>4. CASE Service!SaveReadyFails(r)
      BY <1>4, <2>1, <2>3, <3>4 DEF Service!SaveReadyFails, GaveUp
    <3>5. CASE Service!SaveFailed(r)
      <4>1. Store!UpdateStatus(u, "failed")
        BY <1>4, <2>1, <2>3, <3>5
           DEF GaveUp, Service!SaveFailed, Service!UpdateStatus, Store!UpdateStatus
      <4> QED BY <4>1, FinalWrites
    <3>6. CASE Service!SaveReady(r)
      <4>1. Store!UpdateReady(u)
        BY <2>3, <3>6 DEF Service!SaveReady, Service!UpdateReady, Store!UpdateReady
      <4> QED BY <4>1, FinalWrites
    <3> QED BY <1>6, <3>1, <3>2, <3>3, <3>4, <3>5, <3>6 DEF Service!StoreStep
  <2> QED BY <2>2, <2>3
<1>7. CASE Service!ClientStep(r)
  <2>1. UNCHANGED records
    BY <1>7 DEF Service!ClientStep, Service!Arrive, Service!Reject, Service!Cancel
  <2>2. Owes(r, u) => Owes(r, u)'
    BY <1>7 DEF Service!ClientStep, Service!Arrive, Service!Reject, Service!Cancel, Owes
  <2> QED BY <1>3, <1>5, <2>1, <2>2
<1>8. CASE PublishRequest(r)
  <2>1. UNCHANGED records /\ step[r] = "dispatch" /\ target[r] \in Urls
    BY <1>8 DEF PublishRequest, Service!Dispatched, Targeted, Service!Calls
  <2>2. CASE target[r] = u
    <3>1. PICK p \in Partitions : Consumer!Publish(p, u)
      BY <1>8, <2>2 DEF PublishRequest
    <3> QED BY <3>1, NewIsDue DEF Tended
  <2>3. CASE target[r] # u
    BY <1>3, <1>5, <2>1, <2>3 DEF Owes
  <2> QED BY <2>2, <2>3
<1>9. CASE PublishFails(r)
  <2>1. UNCHANGED <<records, target>> /\ brokenAt'[r] = "dispatch"
    BY <1>9 DEF PublishFails, Service!DispatchFails
  <2> QED BY <1>3, <1>4, <1>5, <2>1 DEF GaveUp, Owes
<1>10. CASE WriterSends(r)
  <2>1. UNCHANGED <<records, target, step>>
    BY <1>10 DEF WriterSends, requests
  <2> QED BY <1>3, <1>5, <2>1 DEF Owes
<1> QED BY <1>6, <1>7, <1>8, <1>9, <1>10 DEF RequestStep, ApiStep

-----------------------------------------------------------------------------
(* The theorem *)

LEMMA StepStrandsNothing ==
    ASSUME Everything, NothingStranded, [Next]_vars
    PROVE  NothingStranded'
<1> SUFFICES ASSUME NEW u \in Urls, InProgress(u)', ~Forsaken(u)'
             PROVE  Tended(u)'
  BY DEF NothingStranded
<1>1. InProgress(u) => Tended(u)
  BY ForsakenKept DEF NothingStranded
<1>2. UNCHANGED records => InProgress(u)
  BY DEF InProgress, Store!InProgress, Store!StatusOf
<1>3. ASSUME NEW r \in Requests, RequestStep(r)
      PROVE  Tended(u)'
  BY <1>3, RequestStrandsNothing
<1>4. CASE ApiCrash
  BY <1>1, <1>2, <1>4, ApiCrashStrandsNothing DEF ApiCrash, Service!ApiCrash
<1>5. CASE GroupStep
  BY <1>1, <1>2, <1>5, GroupStrandsNothing DEF GroupStep
<1>6. ASSUME NEW w \in Workers, WorkerStep(w)
      PROVE  Tended(u)'
  <2>1. CASE HandlerStep(w) \/ HandlerReturns(w)
    BY <2>1, HandlerStrandsNothing
  <2>2. CASE LoopStep(w)
    BY <1>1, <1>2, <2>2, LoopStrandsNothing DEF LoopStep
  <2>3. CASE ProcessRuns(w) \/ ProcessEnds(w)
    BY <1>1, <1>2, <2>3, ProcessStrandsNothing DEF ProcessRuns, ProcessEnds
  <2> QED BY <1>6, <2>1, <2>2, <2>3 DEF WorkerStep
<1>7. CASE UNCHANGED vars
  <2>1. UNCHANGED <<records, requests, topic>>
    BY <1>7 DEF vars
  <2>2. Tended(u) => Tended(u)'
    BY <2>1 DEF requests, topic, Tended, Owes, Due, Tends, Waives, JobsOf, UrlInHand,
       Consumer!Published, Consumer!Payload, Consumer!Accounted, Consumer!Settled
  <2> QED BY <1>1, <1>2, <2>1, <2>2
<1> QED BY <1>3, <1>4, <1>5, <1>6, <1>7 DEF Next

LEMMA InitStrandsNothing ==
    ASSUME Init
    PROVE  InTopic /\ Over /\ NothingStranded
<1>1. InTopic
  BY BoundsAssumption DEF Init, Consumer!Init, InTopic, Consumer!InFlight,
     Consumer!InFlightStates
<1>2. Over
  BY DEF Init, Service!ServiceInit, Over
<1>3. NothingStranded
  BY AbsentAssumption DEF Init, Store!StoreInit, NothingStranded, InProgress,
     Store!InProgress, Store!StatusOf, Store!Statuses
<1> QED BY <1>1, <1>2, <1>3

\* The invariants hold throughout.
LEMMA Throughout == Spec => [](Everything /\ NothingStranded)
<1> DEFINE Stays == InTopic /\ Over /\ NothingStranded
<1>1. Init => Stays
  BY InitStrandsNothing
<1>2. ASSUME IInv, Consumer!TypeOK, Stays, [Next]_vars
      PROVE  Stays'
  <2>1. Everything
    BY <1>2 DEF Everything, TopicInv
  <2>2. InTopic'
    <3>1. CASE Consumer!Next
      BY <2>1, <3>1, TopicKept DEF Everything
    <3>2. CASE UNCHANGED Consumer!vars
      BY <2>1, <3>2 DEF Everything, TopicInv, InTopic, Place, Consumer!Published,
         Consumer!InFlight, Consumer!vars, Consumer!broker, Consumer!workers,
         Consumer!history
    <3> QED BY <1>2, <3>1, <3>2, StepIsLoopStep
  <2> QED BY <1>2, <2>1, <2>2, OverKept, StepStrandsNothing DEF Everything
<1>3. IInv /\ Consumer!TypeOK /\ Stays => Everything /\ NothingStranded
  BY DEF Everything, TopicInv
<1>4. TypeOK => Consumer!TypeOK
  BY DEF TypeOK
<1> HIDE DEF Stays
<1> QED BY <1>1, <1>2, <1>3, <1>4, Invariance, SystemTypeCorrect, PTL DEF Spec

\* A record in progress is attended to, or one of the failures of Forsaken befell it
\* (SubmitURL, GetMetadata, handleMessage, processMessage).
THEOREM NoRecordStranded == Spec => []StrandedOnlyByFailure
<1>1. ASSUME NothingStranded
      PROVE  StrandedOnlyByFailure
  <2>1. ASSUME NEW u \in Urls, Tended(u)
        PROVE  Attended(u)
    BY <2>1 DEF Tended, Owes, Due, Tends, Attended, InHandOf
  <2> QED BY <1>1, <2>1 DEF NothingStranded, StrandedOnlyByFailure
<1> QED BY <1>1, Throughout, PTL

-----------------------------------------------------------------------------
(* The requests strand nothing by themselves *)

\* What requests call does not fail, and their clients wait.
Healthy == Faults \cap {"store", "publish", "client", "api"} = {}

\* Of a request only an Upsert breaks off then, on a duplicate key.
Unhurt == \A r \in Requests : ~cancelled[r] /\ brokenAt[r] \in {"none", "upsert"}

LEMMA UnhurtKept ==
    ASSUME IInv, Healthy, Unhurt, [Next]_vars
    PROVE  Unhurt'
<1> USE DEF IInv, RequestInv, Service!ServiceTypeOK
<1>1. ASSUME NEW q \in Requests, RequestStep(q)
      PROVE  Unhurt'
  <2>1. ~Service!Fails(q, "store") /\ ~Service!Fails(q, "publish")
    BY DEF Healthy, Unhurt, Service!Fails
  <2>2. CASE Service!StoreStep(q)
    <3>1. CASE UNCHANGED brokenAt
      BY <2>2, <3>1, StoreStepFrame DEF Unhurt
    <3>2. CASE ~UNCHANGED brokenAt
      <4>1. brokenAt' = [brokenAt EXCEPT ![q] = step[q]] /\ UNCHANGED cancelled
        BY <2>2, <3>2, StoreStepFrame
      <4>2. ~Service!FindFails(q) /\ ~Service!SaveReadyFails(q) /\ ~Service!RereadFails(q)
        BY <2>1 DEF Service!FindFails, Service!SaveReadyFails, Service!RereadFails
      <4>3. ~Service!SaveFailed(q)
        BY <2>1, <3>2 DEF Service!SaveFailed
      <4>4. ~\/ Service!Find(q) \/ Service!Upsert(q) \/ Service!Mark(q)
             \/ Service!InlineFetch(q) \/ Service!SaveReady(q) \/ Service!Reread(q)
        BY <3>2 DEF Service!Find, Service!Upsert, Service!Mark, Service!InlineFetch,
           Service!SaveReady, Service!Reread, Service!GoOn
      <4>5. step[q] = "upsert"
        BY <2>2, <4>2, <4>3, <4>4 DEF Service!StoreStep, Service!UpsertFails
      <4> QED BY <4>1, <4>5 DEF Unhurt
    <3> QED BY <3>1, <3>2
  <2>3. CASE Service!ClientStep(q)
    BY <2>3 DEF Healthy, Unhurt, Service!ClientStep, Service!Arrive, Service!Reject,
       Service!Answer, Service!Cancel
  <2>4. CASE Service!Dispatched(q) \/ Service!DispatchFails(q)
    BY <2>1, <2>4
       DEF Unhurt, Service!Dispatched, Service!DispatchFails, Service!GoOn, Service!Answer
  <2>5. CASE WriterSends(q)
    BY <2>1, <2>5 DEF WriterSends
  <2> QED
    BY <1>1, <2>2, <2>3, <2>4, <2>5 DEF RequestStep, ApiStep, PublishRequest, PublishFails
<1>2. ~ApiCrash
  BY DEF Healthy, ApiCrash, Service!ApiCrash
<1>3. CASE UNCHANGED requests
  BY <1>3 DEF requests, Unhurt
<1>4. ASSUME NEW w \in Workers, WorkerStep(w)
      PROVE  UNCHANGED requests
  BY <1>4, WorkerWrites
<1>5. GroupStep \/ UNCHANGED vars => UNCHANGED requests
  BY DEF GroupStep, vars
<1> QED BY <1>1, <1>2, <1>3, <1>4, <1>5 DEF Next

\* In a healthy environment requests leave no record behind: neither duplicate keys nor
\* any interleaving of their reads and writes does (SubmitURL, GetMetadata).
THEOREM HealthyRequestsStrandNothing == Spec => []RequestsStrandNothing
<1>1. Init => (Healthy => Unhurt)
  BY DEF Init, Service!ServiceInit, Unhurt
<1>2. IInv /\ (Healthy => Unhurt) /\ [Next]_vars => (Healthy => Unhurt)'
  <2>1. Healthy' = Healthy
    BY DEF Healthy
  <2> QED BY <2>1, UnhurtKept
<1>3. ASSUME StrandedOnlyByFailure, Healthy => Unhurt
      PROVE  RequestsStrandNothing
  <2>1. SUFFICES ASSUME Healthy, NEW u \in Urls, Forsaken(u)
                 PROVE  \/ \E m \in JobsOf(u) : m \in skipped \/ m \in abandoned
                        \/ u \in interrupted
    BY <1>3 DEF RequestsStrandNothing, StrandedOnlyByFailure, Healthy
  <2>2. "store" \notin Faults
    BY <2>1 DEF Healthy
  <2>3. \A r \in Requests : ~GaveUp(r)
    BY <1>3, <2>1, <2>2 DEF Unhurt, GaveUp, Service!Fails
  <2> QED BY <2>1, <2>2, <2>3 DEF Forsaken
<1> QED BY <1>1, <1>2, <1>3, Invariance, NoRecordStranded, PTL DEF Spec
=============================================================================
