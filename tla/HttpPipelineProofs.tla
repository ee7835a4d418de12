------------------------- MODULE HttpPipelineProofs -------------------------
(***************************************************************************)
(* Proofs about HttpPipeline, for any number of connections and addresses, *)
(* any flags, budgets, timeouts and redirect limits.                       *)
(*                                                                         *)
(* That log, counters and client agree is a matter of where the            *)
(* middlewares stand in the chain, and of ages that only grow while a      *)
(* request runs.  The pipeline touches the limiter by the limiter's own    *)
(* steps, so what RateLimiterProofs shows carries over.                    *)
(***************************************************************************)
EXTENDS HttpPipeline, RateLimiterProofs

\* The types of what is not the limiter's.
RequestTypes ==
    /\ FetchTypeOK
    /\ flags \in SUBSET Flags
    /\ tracer \in {"noop", "sdk", "nil"}
    /\ stage \in [Connections -> {"idle", "chain", "handler", "fetch"}]
    /\ address \in [Connections -> Addresses]
    /\ age \in [Connections -> Nat]
    /\ outcome \in [Connections -> Outcomes]

PipelineInv == RequestTypes /\ OneStory

-----------------------------------------------------------------------------
(* The chain *)

\* Logging, and the metrics where they are on, are outside the limiter and the
\* handler, and inside Recovery, whatever the flags.
LEMMA ChainOrder ==
    /\ \A m \in {"RateLimiter", "handler"} :
           /\ "Logging" \in Returning(m)
           /\ "metrics" \in flags => "Metrics" \in Returning(m)
           /\ "Metrics" \in Returning(m) => "metrics" \in flags
    /\ \A m \in {"Tracing", "handler"} : Panicking(m) \cap {"Logging", "Metrics"} = {}
<1> DEFINE global  == <<"RequestID", "Recovery", "Logging", "RealIP", "Tracing">>
           metrics == IF "metrics" \in flags THEN <<"Metrics">> ELSE <<>>
           limiter == IF "ratelimit" \in flags THEN <<"RateLimiter">> ELSE <<>>
<1>1. /\ Len(Chain) = 5 + Len(metrics) + Len(limiter)
      /\ DOMAIN Chain = 1 .. Len(Chain)
      /\ Chain[1] = "RequestID" /\ Chain[2] = "Recovery" /\ Chain[3] = "Logging"
      /\ Chain[4] = "RealIP" /\ Chain[5] = "Tracing"
      /\ "metrics" \in flags => Chain[6] = "Metrics"
      /\ "ratelimit" \in flags => Chain[6 + Len(metrics)] = "RateLimiter"
  BY DEF Chain
<1>2. Outside("Recovery") \subseteq {"RequestID"}
  BY <1>1 DEF Outside
<1>3. ASSUME NEW m \in {"RateLimiter", "handler"}
      PROVE  /\ "Logging" \in Outside(m)
             /\ "metrics" \in flags => "Metrics" \in Outside(m)
             /\ "Metrics" \in Outside(m) => "metrics" \in flags
  BY <1>1 DEF Outside
<1> QED BY <1>2, <1>3 DEF Returning, Panicking

-----------------------------------------------------------------------------
(* Steps of the fetcher *)

LEMMA FetchTypeKept ==
    ASSUME FetchTypeOK, NEW c \in Connections,
           BeginFetch(c) \/ Send(c) \/ SiteStep(c) \/ TimesOut(c)
    PROVE  FetchTypeOK'
<1> USE FetchAssumption DEF FetchTypeOK, FetchStages, GoTo, Connections
<1>1. CASE Redirect(c)
  BY <1>1 DEF Redirect
<1>2. ASSUME NEW s \in FetchStages, GoTo(c, s)
      PROVE  FetchTypeOK'
  BY <1>2
<1> HIDE DEF FetchTypeOK, GoTo
<1> QED BY <1>1, <1>2 DEF BeginFetch, Send, SiteStep, HeadersArrive, BodyArrives,
                          Breaks, TimesOut

LEMMA AgedType == ASSUME FetchTypeOK, fetch' = Aged PROVE FetchTypeOK'
BY FetchAssumption DEF FetchTypeOK, Aged

-----------------------------------------------------------------------------
(* The steps *)

\* The end of a request: what the middlewares record is what was written.
LEMMA EndKeeps ==
    ASSUME PipelineInv, NEW c \in Connections, NEW code \in Codes,
           NEW acting, NEW panicked \in {"no", "tracing", "handler"},
           End(c, code, acting, panicked), UNCHANGED flags,
           IF panicked = "no"
           THEN /\ "Logging" \in acting
                /\ "metrics" \in flags => "Metrics" \in acting
                /\ "Metrics" \in acting => "metrics" \in flags
           ELSE acting \cap {"Logging", "Metrics"} = {}
    PROVE  /\ stage' \in [Connections -> {"idle", "chain", "handler", "fetch"}]
           /\ address' \in [Connections -> Addresses]
           /\ age' \in [Connections -> Nat]
           /\ outcome' \in [Connections -> Outcomes]
           /\ OneStory'
<1> DEFINE o == [wrote    |-> code,
                 logged   |-> IF "Logging" \in acting THEN code ELSE None,
                 counted  |-> IF "Metrics" \in acting THEN code ELSE None,
                 got      |-> IF Late(c) THEN None ELSE code,
                 panicked |-> panicked]
<1>1. o \in Outcomes
  BY DEF Outcomes, Codes, None
<1>2. /\ outcome' = [outcome EXCEPT ![c] = o]
      /\ stage' = [stage EXCEPT ![c] = "idle"]
      /\ UNCHANGED <<address, age>>
  BY DEF End
<1>3. outcome' \in [Connections -> Outcomes]
  BY <1>1, <1>2 DEF PipelineInv, RequestTypes
<1>4. OneStory'
  <2> SUFFICES ASSUME NEW d \in Connections, Ended(d)'
               PROVE  LET q == outcome'[d] IN
                      /\ q.logged = IF q.panicked = "no" THEN q.wrote ELSE None
                      /\ "metrics" \in flags => q.counted = q.logged
                      /\ q.got = q.wrote \/ (q.got = None /\ Late(d)')
    BY DEF OneStory
  <2>1. CASE d = c
    <3>1. outcome'[d] = o
      BY <1>2, <2>1 DEF PipelineInv, RequestTypes
    <3>2. Late(d)' <=> Late(c)
      BY <1>2, <2>1 DEF Late
    <3> QED BY <3>1, <3>2 DEF None
  <2>2. CASE d # c
    <3>1. outcome'[d] = outcome[d] /\ (Late(d)' <=> Late(d))
      BY <1>2, <2>2 DEF PipelineInv, RequestTypes, Late
    <3> QED BY <3>1 DEF PipelineInv, OneStory, Ended
  <2> QED BY <2>1, <2>2
<1> QED BY <1>2, <1>3, <1>4 DEF PipelineInv, RequestTypes

\* A step of one connection that ends nothing.
LEMMA GoesOn ==
    ASSUME PipelineInv, UNCHANGED <<address, age, outcome, flags>>
    PROVE  OneStory'
BY DEF PipelineInv, OneStory, Ended, Late

LEMMA RequestKeeps ==
    ASSUME PipelineInv, NEW c \in Connections, RequestStep(c), UNCHANGED setup
    PROVE  PipelineInv'
<1>1. RequestTypes /\ UNCHANGED <<flags, tracer>>
  BY DEF PipelineInv, setup
<1>2. CASE Arrive(c)
  <2>1. RequestTypes'
    BY <1>1, <1>2 DEF Arrive, RequestTypes, FetchTypeOK, NoOutcome, Outcomes, Codes, None
  <2>2. OneStory'
    <3>1. ~Ended(c)'
      BY <1>1, <1>2 DEF Arrive, Ended, NoOutcome, RequestTypes
    <3>2. \A d \in Connections \ {c} : outcome'[d] = outcome[d] /\ age'[d] = age[d]
      BY <1>1, <1>2 DEF Arrive, RequestTypes
    <3> QED BY <1>1, <3>1, <3>2 DEF PipelineInv, OneStory, Ended, Late
  <2> QED BY <2>1, <2>2 DEF PipelineInv
<1>3. CASE TracingPanics(c)
  <2>1. Panicking("Tracing") \cap {"Logging", "Metrics"} = {}
    BY ChainOrder
  <2>2. End(c, 500, Panicking("Tracing"), "tracing") /\ 500 \in Codes
    BY <1>3 DEF TracingPanics, Codes
  <2> QED BY <1>1, <1>3, <2>1, <2>2, EndKeeps
             DEF TracingPanics, PipelineInv, RequestTypes, FetchTypeOK
<1>4. CASE Enter(c)
  BY <1>1, <1>4, GoesOn DEF Enter, PipelineInv, RequestTypes, FetchTypeOK
<1>5. CASE Refuse(c)
  BY <1>1, <1>5, ChainOrder, EndKeeps
     DEF Refuse, PipelineInv, RequestTypes, FetchTypeOK, Codes
<1>6. CASE Handle(c)
  BY <1>1, <1>6, ChainOrder, EndKeeps
     DEF Handle, PipelineInv, RequestTypes, FetchTypeOK, Codes
<1>7. CASE HandlerPanics(c)
  <2>1. PICK code \in {200, 500} : End(c, code, Panicking("handler"), "handler")
    BY <1>7 DEF HandlerPanics
  <2>2. Panicking("handler") \cap {"Logging", "Metrics"} = {} /\ code \in Codes
    BY ChainOrder DEF Codes
  <2> QED BY <1>1, <1>7, <2>1, <2>2, EndKeeps
             DEF HandlerPanics, PipelineInv, RequestTypes, FetchTypeOK
<1>8. CASE StartFetch(c)
  BY <1>1, <1>8, GoesOn, FetchTypeKept DEF StartFetch, PipelineInv, RequestTypes
<1>9. CASE FetchReturns(c)
  <2>1. PICK code \in {201, 422} : End(c, code, Returning("handler"), "no")
    BY <1>9 DEF FetchReturns
  <2>2. FetchTypeOK'
    BY <1>1, <1>9 DEF FetchReturns, RequestTypes, FetchTypeOK, NoFetch, FetchStages,
                      Connections
  <2>3. code \in Codes
    BY DEF Codes
  <2> QED BY <1>1, <2>1, <2>2, <2>3, ChainOrder, EndKeeps DEF PipelineInv, RequestTypes
<1>10. CASE FetchStep(c)
  BY <1>1, <1>10, GoesOn, FetchTypeKept DEF FetchStep, PipelineInv, RequestTypes
<1> QED BY <1>2, <1>3, <1>4, <1>5, <1>6, <1>7, <1>8, <1>9, <1>10
           DEF RequestStep, HandlerStep

\* A deadline that has passed stays passed.
LEMMA TimeKeeps ==
    ASSUME PipelineInv, TimePasses, UNCHANGED setup
    PROVE  PipelineInv'
<1>1. \A c \in Connections : age[c] \in Nat /\ age'[c] \in Nat /\ age[c] <= age'[c]
  BY DEF TimePasses, PipelineInv, RequestTypes
<1>2. RequestTypes'
  BY AgedType DEF TimePasses, PipelineInv, RequestTypes, setup
<1>3. \A c \in Connections : Late(c) => Late(c)'
  BY <1>1, WriteTimeoutAssumption DEF Late
<1>4. OneStory'
  BY <1>3 DEF TimePasses, PipelineInv, OneStory, Ended, setup
<1> QED BY <1>2, <1>4 DEF PipelineInv

LEMMA StepKeeps == PipelineInv /\ [Next]_vars => PipelineInv'
<1> SUFFICES ASSUME PipelineInv, [Next]_vars
             PROVE  PipelineInv'
  OBVIOUS
<1>1. CASE UNCHANGED <<requests, setup>>
  BY <1>1 DEF requests, setup, PipelineInv, RequestTypes, FetchTypeOK, OneStory, Ended,
              Late
<1>2. CASE UNCHANGED vars
  BY <1>1, <1>2 DEF vars
<1>3. CASE Next
  BY <1>1, <1>3, RequestKeeps, TimeKeeps DEF Next, CleanupRuns
<1> QED BY <1>2, <1>3

LEMMA InitKeeps == Init => PipelineInv
<1> SUFFICES ASSUME Init
             PROVE  PipelineInv
  OBVIOUS
<1>1. FetchTypeOK
  BY DEF Init, FetchInit, FetchTypeOK, NoFetch, FetchStages
<1>2. RequestTypes
  BY <1>1, FlagsAssumption
     DEF Init, RequestTypes, SetupTracer, NoOutcome, Outcomes, Codes, None
<1>3. OneStory
  BY DEF Init, OneStory, Ended, NoOutcome
<1> QED BY <1>2, <1>3 DEF PipelineInv

LEMMA PipelineInductive == Spec => []PipelineInv
BY InitKeeps, StepKeeps, PTL DEF Spec

-----------------------------------------------------------------------------
(* The limiter inside the pipeline *)

LEMMA StepIsLimiterStep ==
    ASSUME PipelineInv, [Next]_vars
    PROVE  [LimiterNext]_limiterVars
<1>1. CASE UNCHANGED vars
  BY <1>1 DEF vars
<1>2. ASSUME NEW c \in Connections, RequestStep(c)
      PROVE  [LimiterNext]_limiterVars
  <2>1. CASE Enter(c)
    <3>1. address[c] \in Addresses
      BY DEF PipelineInv, RequestTypes
    <3> QED BY <2>1, <3>1 DEF Enter, LimiterNext
  <2> QED
    BY <1>2, <2>1 DEF RequestStep, Arrive, TracingPanics, Refuse, Refused, HandlerStep,
       Handle, HandlerPanics, StartFetch, FetchReturns, FetchStep
<1>3. CASE TimePasses \/ CleanupRuns
  BY <1>3 DEF TimePasses, CleanupRuns, LimiterNext
<1> QED BY <1>1, <1>2, <1>3 DEF Next

\* Whoever the limiter refuses had a whole budget in its present window, which began
\* no longer than a window's length ago.
LEMMA RefusedHasSpent ==
    ASSUME IInv, NEW a \in Addresses, Refused(a)
    PROVE  Cardinality({x \in admitted : x[1] = a /\ now - Window <= x[2]}) >= Rate
<1> USE RateAssumption, WindowAssumption
<1> DEFINE start == visitors[a].lastReset
           recent == {x \in admitted : x[1] = a /\ now - Window <= x[2]}
<1>1. /\ now \in Nat /\ start \in Nat /\ visitors[a].tokens \in Int
      /\ visitors[a] # NoVisitor
      /\ visitors[a].tokens <= 0 /\ now - start <= Window
  BY DEF IInv, LimiterTypeOK, Refused, NewWindow, Since, Visitor
<1>2. visitors[a].tokens + Cardinality(From(a, start)) = Rate
  BY <1>1 DEF IInv, Windows, Present
<1>3. From(a, start) \subseteq recent
  <2> SUFFICES ASSUME NEW x \in admitted, x[2] >= start
               PROVE  now - Window <= x[2]
    BY DEF From
  <2>1. x[2] \in Nat
    BY DEF IInv, LimiterTypeOK
  <2> QED BY <1>1, <2>1
<1>4. IsFiniteSet(recent)
  BY Part DEF IInv
<1>5. /\ Cardinality(From(a, start)) \in Nat /\ Cardinality(recent) \in Nat
      /\ Cardinality(From(a, start)) <= Cardinality(recent)
  BY <1>3, <1>4, Part
<1> QED BY <1>1, <1>2, <1>5

\* A 429 is the limiter's.
LEMMA RefusedByLimiter ==
    ASSUME PipelineInv, [Next]_vars, NEW c \in Connections,
           outcome'[c].wrote = 429, outcome[c].wrote # 429
    PROVE  Refused(address[c])
<1> USE DEF PipelineInv, RequestTypes
<1>1. PICK d \in Connections : RequestStep(d)
  BY DEF Next, TimePasses, CleanupRuns, requests, vars
<1>2. ASSUME NEW code, NEW acting, NEW panicked, End(d, code, acting, panicked),
             code # 429
      PROVE  FALSE
  BY <1>2 DEF End
<1>3. CASE Arrive(d)
  BY <1>3 DEF Arrive, NoOutcome, None
<1>4. CASE TracingPanics(d) \/ Handle(d) \/ HandlerPanics(d) \/ FetchReturns(d)
  BY <1>2, <1>4 DEF TracingPanics, Handle, HandlerPanics, FetchReturns
<1>5. CASE Enter(d) \/ StartFetch(d) \/ FetchStep(d)
  BY <1>5 DEF Enter, StartFetch, FetchStep
<1>6. CASE Refuse(d)
  <2>1. d = c
    BY <1>6 DEF Refuse, End
  <2> QED BY <1>6, <2>1 DEF Refuse
<1> QED BY <1>1, <1>3, <1>4, <1>5, <1>6 DEF RequestStep, HandlerStep

-----------------------------------------------------------------------------
(* The theorems *)

\* Log, counters and client agree on every request that ends, with any flags, with
\* or without a panic, however late it ends (the order of NewRouter).
THEOREM LogCountClientAgree == Spec => []OneStory
<1>1. PipelineInv => OneStory
  BY DEF PipelineInv
<1> QED BY <1>1, PipelineInductive, PTL

\* The pipeline uses the limiter as RateLimiter says: no path through the chain
\* takes or gives back a token in another way.
LEMMA LimiterInPipeline == Spec => LimiterSpec
<1>1. Init => LimiterInit
  BY DEF Init
<1> QED BY <1>1, PipelineInductive, StepIsLimiterStep, PTL DEF Spec, LimiterSpec

\* Every variable keeps its type; no fetch makes more requests than its limit.
THEOREM PipelineTypeCorrect == Spec => []TypeOK
<1>1. PipelineInv /\ LimiterTypeOK => TypeOK
  BY DEF PipelineInv, RequestTypes, TypeOK
<1> QED BY <1>1, PipelineInductive, LimiterInPipeline, LimiterTypeCorrect, PTL

\* Behind the whole chain no address gets more than two budgets in a window's length
\* (allow and cleanup).
THEOREM PipelineTwoBudgets == Spec => []AtMostTwoBudgets
BY LimiterInPipeline, NoMoreThanTwoBudgets, PTL

\* Tokens and requests let through make up the budget of the present window, behind
\* the chain too.
THEOREM PipelineBudgetKept == Spec => []BudgetKept
BY LimiterInPipeline, BudgetIsKept, PTL

\* Behind the chain a 429 goes only to an address that was let through a whole budget
\* within the last window's length (Middleware, allow, cleanup).
THEOREM RefusalsAreEarned == Spec => RefusedOnlyWhenSpent
<1> DEFINE Spent(c) ==
        Cardinality({x \in admitted : x[1] = address[c] /\ now - Window <= x[2]}) >= Rate
<1>1. ASSUME PipelineInv, IInv, [Next]_vars, NEW c \in Connections,
             outcome'[c].wrote = 429, outcome[c].wrote # 429
      PROVE  Spent(c)
  <2>1. Refused(address[c]) /\ address[c] \in Addresses
    BY <1>1, RefusedByLimiter DEF PipelineInv, RequestTypes
  <2> QED BY <1>1, <2>1, RefusedHasSpent
<1>2. PipelineInv /\ IInv /\ [Next]_vars =>
          [\A c \in Connections :
              outcome'[c].wrote = 429 /\ outcome[c].wrote # 429 => Spent(c)]_vars
  BY <1>1
<1>3. Spec => []IInv
  BY LimiterInPipeline, Inductive, PTL
<1> QED BY <1>2, <1>3, PipelineInductive, PTL DEF Spec, RefusedOnlyWhenSpent
=============================================================================
