---------------------------- MODULE HttpPipeline ----------------------------
(***************************************************************************)
(* What the HTTP server of the API does with a request: the middleware     *)
(* chain of NewRouter (api/server/server.go, pkg/middleware), the tracer   *)
(* it is given (pkg/observability/tracer.go), the rate limiter, a handler  *)
(* that may panic or fetch a URL inline, and the write timeout.            *)
(*                                                                         *)
(* A middleware is told by its place in the chain.  What the request runs  *)
(* through before the limiter and after its handler touches nothing shared *)
(* and is one step with it.  A connection has one request at a time.       *)
(***************************************************************************)
EXTENDS RateLimiter, HttpFetcher, Sequences

CONSTANTS
    FlagSets,     \* the sets of enabled flags to look at
    WriteTimeout  \* HTTP_WRITE_TIMEOUT in ticks, none if not positive

\* FF_TRACING_ENABLED, FF_METRICS_ENABLED, FF_RATE_LIMIT_ENABLED
Flags == {"tracing", "metrics", "ratelimit"}

ASSUME FlagsAssumption        == FlagSets \subseteq SUBSET Flags
ASSUME WriteTimeoutAssumption == WriteTimeout \in Int

\* The server's connections are the callers of the fetcher.
Connections == Callers

VARIABLES
    flags,    \* the enabled flags
    tracer,   \* what SetupTracer returned
    stage,    \* stage[c]: where the request of c is
    address,  \* address[c]: its RemoteAddr, once RealIP had it
    age,      \* age[c]: ticks since its header was read
    outcome   \* outcome[c]: what became of the last request of c

requests == <<stage, address, age, outcome, fetch>>
setup    == <<flags, tracer>>
vars     == <<limiterVars, requests, setup>>

None     == 0  \* no status code
Codes    == {None, 200, 201, 422, 429, 500}
Outcomes == [wrote : Codes,     \* the status line
             logged : Codes, counted : Codes,
             got : Codes,       \* what the client received
             panicked : {"no", "tracing", "handler"}]

NoOutcome == [wrote |-> None, logged |-> None, counted |-> None, got |-> None,
              panicked |-> "no"]

TypeOK ==
    /\ LimiterTypeOK
    /\ FetchTypeOK
    /\ flags \in SUBSET Flags
    /\ tracer \in {"noop", "sdk", "nil"}
    /\ stage \in [Connections -> {"idle", "chain", "handler", "fetch"}]
    /\ address \in [Connections -> Addresses]
    /\ age \in [Connections -> Nat]
    /\ outcome \in [Connections -> Outcomes]

\* What SetupTracer may return: when the exporter or the resource cannot be made, a
\* nil tracer with the error, and run() goes on with it.
SetupTracer(enabled) == IF "tracing" \in enabled THEN {"sdk", "nil"} ELSE {"noop"}

Init ==
    /\ LimiterInit
    /\ FetchInit
    /\ flags \in FlagSets
    /\ tracer \in SetupTracer(flags)
    /\ stage = [c \in Connections |-> "idle"]
    /\ address \in [Connections -> Addresses]
    /\ age = [c \in Connections |-> 0]
    /\ outcome = [c \in Connections |-> NoOutcome]

-----------------------------------------------------------------------------
(* The chain *)

\* Mutant of Chain: the metrics inside the limiter.
ChainLimitedFirst ==
    <<"RequestID", "Recovery", "Logging", "RealIP", "Tracing", "RateLimiter",
      "Metrics">>

\* The global middleware, outermost first.
Chain ==
    <<"RequestID", "Recovery", "Logging", "RealIP", "Tracing">>
        \o (IF "metrics" \in flags THEN <<"Metrics">> ELSE <<>>)
        \o (IF "ratelimit" \in flags THEN <<"RateLimiter">> ELSE <<>>)

\* The middlewares that a request passes on its way to m; to the handler, all.
Outside(m) ==
    {Chain[i] : i \in {j \in DOMAIN Chain : \A k \in 1 .. j : Chain[k] # m}}

\* What the middlewares around m do when it returns, and when it panics: Recovery
\* catches a panic, so those inside it do not come to their last part.
Returning(m) == Outside(m)
Panicking(m) == Outside(m) \cap Outside("Recovery")

\* A handler writes its answer at its end.  Past the deadline the client does not get
\* it, and the handler does not hear of that.
Late(c) == 0 < WriteTimeout /\ WriteTimeout <= age[c]

\* The request of c ends with the status code, the middlewares of `acting` doing
\* their last part.
End(c, code, acting, panicked) ==
    /\ stage' = [stage EXCEPT ![c] = "idle"]
    /\ outcome' = [outcome EXCEPT ![c] =
           [wrote    |-> code,
            logged   |-> IF "Logging" \in acting THEN code ELSE None,
            counted  |-> IF "Metrics" \in acting THEN code ELSE None,
            got      |-> IF Late(c) THEN None ELSE code,
            panicked |-> panicked]]
    /\ UNCHANGED <<address, age>>

-----------------------------------------------------------------------------
(* A request *)

\* The header is read.  RemoteAddr is the connection's, or what a proxy's header
\* says, hence any.
Arrive(c) ==
    /\ stage[c] = "idle"
    /\ \E a \in Addresses : address' = [address EXCEPT ![c] = a]
    /\ age' = [age EXCEPT ![c] = 0]
    /\ stage' = [stage EXCEPT ![c] = "chain"]
    /\ outcome' = [outcome EXCEPT ![c] = NoOutcome]
    /\ UNCHANGED <<limiterVars, fetch>>

\* tracer.Start on a nil interface.
TracingPanics(c) ==
    /\ stage[c] = "chain"
    /\ tracer = "nil"
    /\ End(c, 500, Panicking("Tracing"), "tracing")
    /\ UNCHANGED <<limiterVars, fetch>>

\* The limiter, if there is one, lets the request through to its handler.
Enter(c) ==
    /\ stage[c] = "chain"
    /\ tracer # "nil"
    /\ \/ "ratelimit" \in flags /\ (OpenWindow(address[c]) \/ TakeToken(address[c]))
       \/ "ratelimit" \notin flags /\ UNCHANGED limiterVars
    /\ stage' = [stage EXCEPT ![c] = "handler"]
    /\ UNCHANGED <<address, age, outcome, fetch>>

\* Mutant of Refuse: with one token left.
RefuseEarly(c) ==
    /\ stage[c] = "chain"
    /\ ~NewWindow(address[c]) /\ visitors[address[c]].tokens <= 1
    /\ End(c, 429, Returning("RateLimiter"), "no")
    /\ UNCHANGED <<limiterVars, fetch>>

\* The limiter answers.
Refuse(c) ==
    /\ stage[c] = "chain"
    /\ tracer # "nil" /\ "ratelimit" \in flags
    /\ Refused(address[c])
    /\ End(c, 429, Returning("RateLimiter"), "no")
    /\ UNCHANGED fetch

\* A handler without a fetch of its own writes its answer and returns.
Handle(c) ==
    /\ stage[c] = "handler"
    /\ End(c, 200, Returning("handler"), "no")
    /\ UNCHANGED <<limiterVars, fetch>>

\* It panics, before it wrote a header or after: then WriteHeader of Recovery is
\* superfluous.
HandlerPanics(c) ==
    /\ stage[c] = "handler"
    /\ \E code \in {200, 500} : End(c, code, Panicking("handler"), "handler")
    /\ UNCHANGED <<limiterVars, fetch>>

\* An inline POST calls the fetcher.  Neither the deadline of the connection nor
\* the context of the request reaches it.
StartFetch(c) ==
    /\ stage[c] = "handler"
    /\ BeginFetch(c)
    /\ stage' = [stage EXCEPT ![c] = "fetch"]
    /\ UNCHANGED <<limiterVars, address, age, outcome>>

\* The fetch is over: 201, or 422 when it failed.
FetchReturns(c) ==
    /\ stage[c] = "fetch"
    /\ \/ fetch[c].stage = "done" /\ End(c, 201, Returning("handler"), "no")
       \/ fetch[c].stage = "failed" /\ End(c, 422, Returning("handler"), "no")
    /\ fetch' = [fetch EXCEPT ![c] = NoFetch]
    /\ UNCHANGED limiterVars

\* A step of the fetch of c.
FetchStep(c) ==
    /\ Send(c) \/ SiteStep(c) \/ TimesOut(c)
    /\ UNCHANGED <<limiterVars, stage, address, age, outcome>>

-----------------------------------------------------------------------------
(* Time *)

\* A tick for the limiter, whose clock stops at its bound, the connections and the
\* fetches.  Ages past a timeout are not told apart.
TimePasses ==
    /\ Tick \/ (now = MaxTime /\ UNCHANGED limiterVars)
    /\ age' = [c \in Connections |->
                  IF stage[c] # "idle" /\ age[c] < WriteTimeout THEN age[c] + 1 ELSE age[c]]
    /\ fetch' = Aged
    /\ UNCHANGED <<stage, address, outcome>>

CleanupRuns ==
    /\ "ratelimit" \in flags
    /\ Cleanup
    /\ UNCHANGED requests

HandlerStep(c) == Handle(c) \/ HandlerPanics(c) \/ StartFetch(c)

RequestStep(c) ==
    \/ Arrive(c)
    \/ TracingPanics(c) \/ Enter(c) \/ Refuse(c)
    \/ HandlerStep(c) \/ FetchReturns(c)
    \/ FetchStep(c)

Next ==
    /\ \/ \E c \in Connections : RequestStep(c)
       \/ TimePasses
       \/ CleanupRuns
    /\ UNCHANGED setup

Spec == Init /\ [][Next]_vars

\* The server runs its handlers, the resolver answers, time passes and timers fire.
\* Nothing is assumed of the site that is fetched.
Running(A) == A /\ UNCHANGED setup

Fairness ==
    /\ WF_vars(Running(TimePasses))
    /\ \A c \in Connections :
        /\ WF_vars(Running(TracingPanics(c) \/ Enter(c) \/ Refuse(c)))
        /\ WF_vars(Running(HandlerStep(c)))
        /\ WF_vars(Running(Send(c) /\ FetchStep(c)))
        /\ WF_vars(Running(TimesOut(c) /\ FetchStep(c)))
        /\ WF_vars(Running(FetchReturns(c)))

FairSpec == Spec /\ Fairness

-----------------------------------------------------------------------------
(* Properties *)

Ended(c) == outcome[c].wrote # None

\* Log, counters and client tell one story: all of them have the status that was
\* written, or the request panicked and was neither logged nor counted, or the
\* client waited past the write deadline and got nothing (the order of NewRouter).
OneStory ==
    \A c \in Connections : Ended(c) =>
        LET o == outcome[c] IN
        /\ o.logged = IF o.panicked = "no" THEN o.wrote ELSE None
        /\ "metrics" \in flags => o.counted = o.logged
        /\ o.got = o.wrote \/ (o.got = None /\ Late(c))

\* 429 is for addresses that had a whole budget within the last window's length, and
\* a panic, an answer or a cleanup in between takes nothing of it (Middleware, allow).
RefusedOnlyWhenSpent ==
    [][\A c \in Connections :
          outcome'[c].wrote = 429 /\ outcome[c].wrote # 429 =>
              Cardinality({x \in admitted : x[1] = address[c] /\ now - Window <= x[2]})
                  >= Rate]_vars

\* Whatever site a request fetches from, its handler returns (the timeout of the
\* client; with FETCH_TIMEOUT <= 0 this is false).
EveryRequestEnds == \A c \in Connections : stage[c] # "idle" ~> stage[c] = "idle"
=============================================================================
