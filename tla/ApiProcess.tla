----------------------------- MODULE ApiProcess -----------------------------
(***************************************************************************)
(* The life of the API process: run() of api/main.go with ConnectMongo     *)
(* (pkg/db/client.go), the HTTP server (api/server) and the readiness      *)
(* probe (api/handlers/health.go).                                         *)
(*                                                                         *)
(* run() goes from phase to phase; the requests and the probe run beside   *)
(* it and use the Mongo client and the producer it opens and closes.  What *)
(* a request does with them is MetadataService.                            *)
(***************************************************************************)
EXTENDS Naturals

CONSTANTS
    Requests,
    MaxAttempts  \* maxRetries of ConnectMongo, 5

ASSUME AttemptsAssumption == MaxAttempts \in Nat \ {0}

VARIABLES
    phase,     \* where run() is
    status,    \* what run() returned, or is about to return
    attempt,   \* the loop variable of ConnectMongo
    accepted,  \* the driver accepts MONGO_URI, settled when it is parsed
    left,      \* clients that ConnectMongo connected and dropped, never to close
    client,    \* the Mongo client of the repository
    producer,
    request,   \* request[r]: where the HTTP server has r
    check,     \* the check of the readiness probe that is next
    failed,    \* checks of the probe that failed
    up,        \* the dependencies that can be reached now
    seen,      \* history: those that could be at some moment of the probe
    met        \* history: requests that met a closed client or producer

run    == <<phase, status, attempt, accepted, left, client, producer>>
probe  == <<check, failed, seen>>
vars   == <<run, probe, request, up, met>>

Startup      == {"connect", "pause", "indexes"}
Closing      == {"closeProducer", "disconnect", "flush"}
Phases       == Startup \cup {"serve", "drain"} \cup Closing \cup {"exited"}
\* "kafka" is the first broker of the list, the only one Ping dials.
Dependencies == {"mongo", "kafka"}

TypeOK ==
    /\ phase \in Phases
    /\ status \in {"running", "ok", "error", "killed"}
    /\ attempt \in 1 .. MaxAttempts
    /\ accepted \in BOOLEAN
    /\ left \in Nat
    /\ client \in {"none", "open", "closed"}
    /\ producer \in {"none", "open", "closed"}
    /\ request \in [Requests -> {"idle", "handling", "answered", "cut"}]
    /\ check \in {"none", "mongodb", "kafka", "ready", "degraded"}
    /\ failed \subseteq {"mongodb", "kafka"}
    /\ up \subseteq Dependencies
    /\ seen \subseteq Dependencies
    /\ met \subseteq Requests

Init ==
    /\ phase = "connect"
    /\ status = "running"
    /\ attempt = 1
    /\ accepted \in BOOLEAN
    /\ left = 0
    /\ client = "none"
    /\ producer = "none"
    /\ request = [r \in Requests |-> "idle"]
    /\ check = "none"
    /\ failed = {}
    /\ up \in SUBSET Dependencies
    /\ seen = {}
    /\ met = {}

Probing == check \in {"mongodb", "kafka"}
Busy    == Probing \/ \E r \in Requests : request[r] = "handling"

-----------------------------------------------------------------------------
(* Startup.  The signals are not handled yet: one of them is a Kill. *)

\* An attempt of ConnectMongo fails.  Connect refuses the URI, or Ping gets no
\* answer: then the client stays, connected in the background.  (Bound: left counts
\* to MaxAttempts + 1.)
AttemptFails ==
    /\ phase = "connect"
    /\ ~accepted \/ "mongo" \notin up
    /\ left' = IF accepted /\ left <= MaxAttempts THEN left + 1 ELSE left
    /\ phase' = "pause"
    /\ UNCHANGED <<status, attempt, accepted, client, producer, probe, request,
                   up, met>>

\* Connect and Ping succeed.
Connected ==
    /\ phase = "connect"
    /\ accepted /\ "mongo" \in up
    /\ client' = "open"
    /\ phase' = "indexes"
    /\ UNCHANGED <<status, attempt, accepted, left, producer, probe, request, up, met>>

\* Mutants of TryAgain: one attempt too many; attempts not counted.
TryOnceMore ==
    /\ phase = "pause"
    /\ attempt <= MaxAttempts
    /\ attempt' = attempt + 1
    /\ phase' = "connect"
    /\ UNCHANGED <<status, accepted, left, client, producer, probe, request, up, met>>

TryForEver ==
    /\ phase = "pause"
    /\ phase' = "connect"
    /\ UNCHANGED <<status, attempt, accepted, left, client, producer, probe, request, up,
                   met>>

\* The backoff is over, the last attempt's too.
TryAgain ==
    /\ phase = "pause"
    /\ attempt < MaxAttempts
    /\ attempt' = attempt + 1
    /\ phase' = "connect"
    /\ UNCHANGED <<status, accepted, left, client, producer, probe, request, up, met>>

ConnectGivesUp ==
    /\ phase = "pause"
    /\ attempt = MaxAttempts
    /\ phase' = "flush"
    /\ status' = "error"
    /\ UNCHANGED <<attempt, accepted, left, client, producer, probe, request, up, met>>

\* ensureIndexes fails: run() returns, its deferred calls remain.
IndexesFail ==
    /\ phase = "indexes"
    /\ phase' = "disconnect"
    /\ status' = "error"
    /\ UNCHANGED <<attempt, accepted, left, client, producer, probe, request, up, met>>

\* The indexes are there: the producer is made and the server listens.
StartServing ==
    /\ phase = "indexes"
    /\ "mongo" \in up
    /\ producer' = "open"
    /\ phase' = "serve"
    /\ UNCHANGED <<status, attempt, accepted, left, client, probe, request, up, met>>

-----------------------------------------------------------------------------
(* Shutdown *)

\* Mutant of ServerFails: run() returns nil.
ServerFailsQuietly ==
    /\ phase = "serve"
    /\ phase' = "closeProducer"
    /\ status' = "ok"
    /\ UNCHANGED <<attempt, accepted, left, client, producer, probe, request, up, met>>

\* ListenAndServe returns an error: run() returns without Shutdown.
ServerFails ==
    /\ phase = "serve"
    /\ phase' = "closeProducer"
    /\ status' = "error"
    /\ UNCHANGED <<attempt, accepted, left, client, producer, probe, request, up, met>>

\* SIGINT or SIGTERM: Shutdown stops listening and waits.  A second signal is
\* caught too and changes nothing.
StopSignal ==
    /\ phase = "serve"
    /\ phase' = "drain"
    /\ UNCHANGED <<status, attempt, accepted, left, client, producer, probe, request,
                   up, met>>

\* Mutant of Drained: run() does not wait for the handlers.
DrainedAtOnce ==
    /\ phase = "drain"
    /\ phase' = "closeProducer"
    /\ status' = "ok"
    /\ UNCHANGED <<attempt, accepted, left, client, producer, probe, request, up, met>>

\* Shutdown returns: every handler is done.
Drained ==
    /\ phase = "drain"
    /\ ~Busy
    /\ phase' = "closeProducer"
    /\ status' = "ok"
    /\ UNCHANGED <<attempt, accepted, left, client, producer, probe, request, up, met>>

\* Mutant of DrainTimesOut: Shutdown has no deadline.
DrainWaits == FALSE

\* ShutdownTimeout is over first.
DrainTimesOut ==
    /\ phase = "drain"
    /\ phase' = "closeProducer"
    /\ status' = "error"
    /\ UNCHANGED <<attempt, accepted, left, client, producer, probe, request, up, met>>

\* The deferred calls, last first.
CloseProducer ==
    /\ phase = "closeProducer"
    /\ producer' = "closed"
    /\ phase' = "disconnect"
    /\ UNCHANGED <<status, attempt, accepted, left, client, probe, request, up, met>>

DisconnectMongo ==
    /\ phase = "disconnect"
    /\ client' = "closed"
    /\ phase' = "flush"
    /\ UNCHANGED <<status, attempt, accepted, left, producer, probe, request, up, met>>

\* The process is gone, and the connections of its requests are cut.
Gone ==
    /\ phase' = "exited"
    /\ request' = [r \in Requests |->
           IF request[r] = "handling" THEN "cut" ELSE request[r]]
    /\ check' = "none"
    /\ UNCHANGED <<attempt, accepted, left, client, producer, failed, seen, up, met>>

\* The tracer is flushed and main returns.
Exit ==
    /\ phase = "flush"
    /\ Gone
    /\ UNCHANGED status

\* The process dies: SIGKILL, or a signal while none is caught.
Kill ==
    /\ phase # "exited"
    /\ Gone
    /\ status' = "killed"

-----------------------------------------------------------------------------
(* Requests, the probe, and the world *)

Accept(r) ==
    /\ phase = "serve"
    /\ request[r] = "idle"
    /\ request' = [request EXCEPT ![r] = "handling"]
    /\ UNCHANGED <<run, probe, up, met>>

\* The handler of r calls the repository or the producer after run() closed it.
MeetsClosed(r) ==
    /\ request[r] = "handling"
    /\ "closed" \in {client, producer}
    /\ met' = met \cup {r}
    /\ UNCHANGED <<run, probe, request, up>>

Answer(r) ==
    /\ request[r] = "handling"
    /\ request' = [request EXCEPT ![r] = "answered"]
    /\ UNCHANGED <<run, probe, up, met>>

\* GET /ready
Probe ==
    /\ phase = "serve"
    /\ ~Probing
    /\ check' = "mongodb"
    /\ failed' = {}
    /\ seen' = up
    /\ UNCHANGED <<run, request, up, met>>

\* repo.Ping
CheckMongo ==
    /\ check = "mongodb"
    /\ check' = "kafka"
    /\ failed' = IF "mongo" \in up /\ client = "open" THEN {} ELSE {"mongodb"}
    /\ UNCHANGED <<run, request, seen, up, met>>

\* Mutant of CheckKafka: the answer forgets the first check.
LastCheckCounts ==
    /\ check = "kafka"
    /\ failed' = IF "kafka" \in up THEN {} ELSE {"kafka"}
    /\ check' = IF failed' = {} THEN "ready" ELSE "degraded"
    /\ UNCHANGED <<run, request, seen, up, met>>

\* KafkaProducer.Ping dials the first broker of the list.
CheckKafka ==
    /\ check = "kafka"
    /\ failed' = IF "kafka" \in up THEN failed ELSE failed \cup {"kafka"}
    /\ check' = IF failed' = {} THEN "ready" ELSE "degraded"
    /\ UNCHANGED <<run, request, seen, up, met>>

\* A dependency goes down or comes back.
Change(d) ==
    /\ phase # "exited"
    /\ up' = IF d \in up THEN up \ {d} ELSE up \cup {d}
    /\ seen' = IF Probing THEN seen \cup up' ELSE seen
    /\ UNCHANGED <<run, request, check, failed, met>>

-----------------------------------------------------------------------------
StartupStep ==
    AttemptFails \/ Connected \/ TryAgain \/ ConnectGivesUp \/ IndexesFail \/ StartServing

ShutdownStep ==
    Drained \/ DrainTimesOut \/ CloseProducer \/ DisconnectMongo \/ Exit

RequestStep(r) == Accept(r) \/ MeetsClosed(r) \/ Answer(r)

ProbeStep == Probe \/ CheckMongo \/ CheckKafka

Next ==
    \/ StartupStep
    \/ ServerFails \/ StopSignal
    \/ ShutdownStep
    \/ Kill
    \/ \E r \in Requests : RequestStep(r)
    \/ ProbeStep
    \/ \E d \in Dependencies : Change(d)

Spec == Init /\ [][Next]_vars

\* run() goes on: every call it makes at startup has a timeout, and so has
\* Shutdown.  Nothing is assumed of the requests, nor that a signal comes.
Fairness == WF_run(StartupStep) /\ WF_run(ShutdownStep)

FairSpec == Spec /\ Fairness

-----------------------------------------------------------------------------
(* Properties *)

\* No request meets a closed client or producer, unless run() is about to return
\* an error or the process was killed on its way out (the order of Shutdown and
\* the deferred calls).
ClosedOnlyAfterFailure == status \in {"running", "ok"} => met = {}

\* When run() returns nil every request the server accepted has been answered
\* (Shutdown).
GracefulStopAnswersAll ==
    status = "ok" => \A r \in Requests : request[r] \in {"idle", "answered"}

\* A probe that answers "ready" saw Mongo and the first Kafka broker up, each
\* at some moment of its own: not together, and maybe no longer
\* (ReadyHandler.ServeHTTP).
ReadyMeansSeen == check = "ready" => Dependencies \subseteq seen

\* A process that serves has left fewer clients behind it than it made attempts, and
\* one that gave up has as many at most (ConnectMongo disconnects none of them).
FewLeftBehind ==
    /\ left <= MaxAttempts
    /\ phase \in {"serve", "drain"} => left < attempt

\* A process that was told to stop does, even when a request never ends
\* (ShutdownTimeout).
StopsWhenTold == phase = "drain" ~> phase = "exited"

\* Startup does not go on for ever, whatever Mongo does: the process serves or
\* exits (the bounded attempts of ConnectMongo).
StartupEnds == phase \in Startup ~> phase \in {"serve", "exited"}
=============================================================================
