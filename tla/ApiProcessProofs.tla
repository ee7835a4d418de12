-------------------------- MODULE ApiProcessProofs --------------------------
(***************************************************************************)
(* Proofs about ApiProcess, for any set of requests and any number of      *)
(* attempts.                                                               *)
(*                                                                         *)
(* The properties are not inductive: that a request met nothing closed so  *)
(* far says nothing of one still handled when run() closes the producer.   *)
(* What is needed is how status follows the phases: as long as run() has   *)
(* not returned nothing is closed and nobody cut off, and when it returns  *)
(* nil no handler is left.  A ready probe needs what the probe knows       *)
(* between its two checks, and the clients left behind need the attempt    *)
(* that each of them was.                                                  *)
(***************************************************************************)
EXTENDS ApiProcess, TLAPS

Open == Startup \cup {"serve", "drain"}

\* run() is open exactly as long as it has settled no result; until then it closes
\* nothing and cuts nobody off.
OpenUntilSettled ==
    /\ phase \in Open <=> status = "running"
    /\ status = "running" =>
           /\ client # "closed" /\ producer # "closed"
           /\ \A r \in Requests : request[r] # "cut"

\* While a probe runs it has seen all that is up now, and Mongo once that check
\* passed.
ProbeKnows ==
    /\ Probing => up \subseteq seen
    /\ check = "kafka" /\ "mongodb" \notin failed => "mongo" \in seen
    /\ ReadyMeansSeen

\* At most one client is left behind for each attempt that failed.
LeftByAttempts ==
    /\ left <= attempt
    /\ phase \in Open \ {"pause"} => left < attempt

IInv ==
    /\ TypeOK
    /\ OpenUntilSettled
    /\ GracefulStopAnswersAll
    /\ ClosedOnlyAfterFailure
    /\ ProbeKnows
    /\ LeftByAttempts

LEMMA InitIInv == Init => IInv
<1> USE AttemptsAssumption
<1> QED
  BY DEF Init, IInv, TypeOK, OpenUntilSettled, GracefulStopAnswersAll,
         ClosedOnlyAfterFailure, ProbeKnows, ReadyMeansSeen, Probing,
         LeftByAttempts, Open, Startup, Phases, Dependencies

-----------------------------------------------------------------------------
(* One lemma for each group of actions *)

\* Startup opens things and closes nothing.
LEMMA StartupKeeps == ASSUME IInv, StartupStep PROVE IInv'
<1> USE AttemptsAssumption
    DEF IInv, TypeOK, OpenUntilSettled, GracefulStopAnswersAll,
        ClosedOnlyAfterFailure, ProbeKnows, ReadyMeansSeen, Probing, LeftByAttempts,
        Open, Startup, Closing, Phases, probe
<1>1. CASE AttemptFails
  BY <1>1 DEF AttemptFails
<1>2. CASE Connected
  BY <1>2 DEF Connected
<1>3. CASE TryAgain
  BY <1>3 DEF TryAgain
<1>4. CASE ConnectGivesUp
  BY <1>4 DEF ConnectGivesUp
<1>5. CASE IndexesFail
  BY <1>5 DEF IndexesFail
<1>6. CASE StartServing
  BY <1>6 DEF StartServing
<1> QED BY <1>1, <1>2, <1>3, <1>4, <1>5, <1>6 DEF StartupStep

\* The end of a process cuts off handlers only when run() has not returned nil.
LEMMA GoneKeeps ==
    ASSUME IInv, Gone, status' = "killed" \/ (status' = status /\ phase = "flush")
    PROVE  IInv'
<1> USE DEF IInv, TypeOK, OpenUntilSettled, GracefulStopAnswersAll,
            ClosedOnlyAfterFailure, ProbeKnows, ReadyMeansSeen, Probing, LeftByAttempts,
            Open, Startup, Closing, Phases, Gone
<1>1. TypeOK'
  OBVIOUS
<1>2. status' # "running"
  OBVIOUS
<1>3. GracefulStopAnswersAll'
  <2>1. CASE status' = "killed"
    BY <2>1
  <2>2. CASE status' = status
    BY <2>2
  <2> QED BY <2>1, <2>2
<1> QED BY <1>1, <1>2, <1>3

\* Shutdown: Drained is the one step to a nil result, and nobody is handled then.
LEMMA ShutdownKeeps ==
    ASSUME IInv, ShutdownStep \/ ServerFails \/ StopSignal \/ Kill
    PROVE  IInv'
<1> USE DEF IInv, TypeOK, OpenUntilSettled, GracefulStopAnswersAll,
            ClosedOnlyAfterFailure, ProbeKnows, ReadyMeansSeen, Probing, LeftByAttempts,
        Open, Startup, Closing, Phases, probe
<1>1. CASE Drained
  <2>1. \A r \in Requests : request[r] \in {"idle", "answered"}
    BY <1>1 DEF Drained, Busy
  <2> QED BY <1>1, <2>1 DEF Drained
<1>2. CASE DrainTimesOut
  BY <1>2 DEF DrainTimesOut
<1>3. CASE CloseProducer
  BY <1>3 DEF CloseProducer
<1>4. CASE DisconnectMongo
  BY <1>4 DEF DisconnectMongo
<1>5. CASE ServerFails
  BY <1>5 DEF ServerFails
<1>6. CASE StopSignal
  BY <1>6 DEF StopSignal
<1> HIDE DEF IInv
<1>7. CASE Exit
  BY <1>7, GoneKeeps DEF Exit
<1>8. CASE Kill
  BY <1>8, GoneKeeps DEF Kill
<1> QED
  BY <1>1, <1>2, <1>3, <1>4, <1>5, <1>6, <1>7, <1>8 DEF ShutdownStep

\* A request that meets something closed does so after run() settled its result,
\* and that is not nil, or the request would not be handled.
LEMMA RequestKeeps ==
    ASSUME IInv, NEW r \in Requests, RequestStep(r)
    PROVE  IInv'
<1> USE DEF IInv, TypeOK, OpenUntilSettled, GracefulStopAnswersAll,
            ClosedOnlyAfterFailure, ProbeKnows, ReadyMeansSeen, Probing, LeftByAttempts,
            Open, run, probe
<1>1. CASE Accept(r)
  <2>1. status = "running"
    BY <1>1 DEF Accept, Open
  <2> QED BY <1>1, <2>1 DEF Accept
<1>2. CASE MeetsClosed(r)
  <2>1. status \notin {"running", "ok"}
    BY <1>2 DEF MeetsClosed
  <2> QED BY <1>2, <2>1 DEF MeetsClosed
<1>3. CASE Answer(r)
  BY <1>3 DEF Answer
<1> QED BY <1>1, <1>2, <1>3 DEF RequestStep

\* The probe and the world touch nothing of it.
LEMMA ProbeKeeps ==
    ASSUME IInv, ProbeStep \/ \E d \in Dependencies : Change(d)
    PROVE  IInv'
<1> USE DEF IInv, TypeOK, OpenUntilSettled, GracefulStopAnswersAll,
            ClosedOnlyAfterFailure, ProbeKnows, ReadyMeansSeen, Probing, LeftByAttempts,
            Dependencies, run
<1>1. CASE Probe
  BY <1>1 DEF Probe
<1>2. CASE CheckMongo
  BY <1>2 DEF CheckMongo
<1>3. CASE CheckKafka
  BY <1>3 DEF CheckKafka
<1>4. ASSUME NEW d \in Dependencies, Change(d)
      PROVE  IInv'
  BY <1>4 DEF Change
<1> QED BY <1>1, <1>2, <1>3, <1>4 DEF ProbeStep

LEMMA NextKeeps == IInv /\ [Next]_vars => IInv'
<1> SUFFICES ASSUME IInv, [Next]_vars
             PROVE  IInv'
  OBVIOUS
<1>1. CASE UNCHANGED vars
  BY <1>1 DEF IInv, TypeOK, OpenUntilSettled, GracefulStopAnswersAll,
              ClosedOnlyAfterFailure, ProbeKnows, ReadyMeansSeen, Probing,
              LeftByAttempts, vars, run, probe
<1> QED
  BY <1>1, StartupKeeps, ShutdownKeeps, RequestKeeps, ProbeKeeps DEF Next

LEMMA Inductive == Spec => []IInv
<1> QED BY InitIInv, NextKeeps, PTL DEF Spec

-----------------------------------------------------------------------------
(* The theorems *)

\* The variables of the process keep their types; ConnectMongo makes no more than
\* MaxAttempts attempts.
THEOREM ProcessTypeCorrect == Spec => []TypeOK
<1>1. IInv => TypeOK
  BY DEF IInv
<1> QED BY <1>1, Inductive, PTL

\* No request meets a closed client or producer before run() settled an error or the
\* process was killed (Shutdown before the deferred calls).
THEOREM NothingClosedUnderRequests == Spec => []ClosedOnlyAfterFailure
<1>1. IInv => ClosedOnlyAfterFailure
  BY DEF IInv
<1> QED BY <1>1, Inductive, PTL

\* A process whose run() returns nil has answered every request it accepted
\* (Shutdown).
THEOREM GracefulStopIsComplete == Spec => []GracefulStopAnswersAll
<1>1. IInv => GracefulStopAnswersAll
  BY DEF IInv
<1> QED BY <1>1, Inductive, PTL

\* A probe that answers "ready" saw each of the two dependencies up while it ran
\* (ReadyHandler.ServeHTTP).
THEOREM ReadyIsSeen == Spec => []ReadyMeansSeen
<1>1. IInv => ReadyMeansSeen
  BY DEF IInv, ProbeKnows
<1> QED BY <1>1, Inductive, PTL

\* A process never leaves more clients behind than it makes attempts, and fewer when
\* it serves (ConnectMongo).
THEOREM FewClientsLeftBehind == Spec => []FewLeftBehind
<1>1. IInv => FewLeftBehind
  <2> SUFFICES ASSUME IInv PROVE FewLeftBehind
    OBVIOUS
  <2> USE AttemptsAssumption DEF IInv, TypeOK, LeftByAttempts, FewLeftBehind, Open
  <2> QED OBVIOUS
<1> QED BY <1>1, Inductive, PTL
=============================================================================
