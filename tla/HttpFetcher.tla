----------------------------- MODULE HttpFetcher -----------------------------
(***************************************************************************)
(* Fetch (pkg/fetcher/http_fetcher.go): one GET with redirects under the   *)
(* timeout of the client, for each caller.  The site at the other end is   *)
(* free to answer, to redirect for ever, to break off or to say nothing.   *)
(* What is read of its answer is left out; the age of a call is counted in *)
(* ticks of whoever extends the module.                                    *)
(***************************************************************************)
EXTENDS Integers

CONSTANTS
    Callers,
    FetchTimeout,  \* FETCH_TIMEOUT in ticks: any integer; a client without a
                   \* positive timeout has none
    MaxRedirects   \* FETCH_MAX_REDIRECTS: any integer

ASSUME FetchAssumption == FetchTimeout \in Int /\ MaxRedirects \in Int

VARIABLE fetch  \* fetch[c]: the call of c

FetchStages == {"none", "check", "sent", "body", "done", "failed"}

NoFetch == [stage |-> "none", hops |-> 0, age |-> 0]

UnderWay(c) == fetch[c].stage \in {"sent", "body"}

\* No fetch makes more requests than FETCH_MAX_REDIRECTS, or one.
FetchTypeOK ==
    /\ fetch \in [Callers -> [stage : FetchStages, hops : Nat, age : Nat]]
    /\ \A c \in Callers : fetch[c].hops = 0 \/ fetch[c].hops < MaxRedirects

FetchInit == fetch = [c \in Callers |-> NoFetch]

GoTo(c, stage) == fetch' = [fetch EXCEPT ![c].stage = stage]

-----------------------------------------------------------------------------
\* The URL is checked before the client's timer runs; resolving its host waits for
\* the resolver alone.
BeginFetch(c) ==
    /\ fetch[c].stage = "none"
    /\ GoTo(c, "check")

\* validateURLSafety or NewRequest refuses the URL, or client.Do sends the request.
Send(c) ==
    /\ fetch[c].stage = "check"
    /\ GoTo(c, "failed") \/ GoTo(c, "sent")

\* Mutant of Redirect: one redirect more, as the error text has it.
RedirectMax(c) ==
    /\ fetch[c].stage = "sent"
    /\ \/ /\ fetch[c].hops < MaxRedirects
          /\ fetch' = [fetch EXCEPT ![c].hops = @ + 1]
       \/ /\ fetch[c].hops >= MaxRedirects
          /\ GoTo(c, "failed")

\* The site redirects.  CheckRedirect is given the requests made so far, the first
\* one included, and refuses as many as MaxRedirects.
Redirect(c) ==
    /\ fetch[c].stage = "sent"
    /\ \/ /\ fetch[c].hops + 1 < MaxRedirects
          /\ fetch' = [fetch EXCEPT ![c].hops = @ + 1]
       \/ /\ fetch[c].hops + 1 >= MaxRedirects
          /\ GoTo(c, "failed")

\* The headers arrive; with page sources on, the body is read too.
HeadersArrive(c) ==
    /\ fetch[c].stage = "sent"
    /\ GoTo(c, "done") \/ GoTo(c, "body")

BodyArrives(c) ==
    /\ fetch[c].stage = "body"
    /\ GoTo(c, "done")

\* The connection cannot be made or breaks.
Breaks(c) ==
    /\ UnderWay(c)
    /\ GoTo(c, "failed")

\* Mutant of TimesOut: ResponseHeaderTimeout alone.
HeadersTimeOut(c) ==
    /\ fetch[c].stage = "sent"
    /\ 0 < FetchTimeout /\ FetchTimeout <= fetch[c].age
    /\ GoTo(c, "failed")

\* The client's timeout covers the redirects and the body.
TimesOut(c) ==
    /\ UnderWay(c)
    /\ 0 < FetchTimeout /\ FetchTimeout <= fetch[c].age
    /\ GoTo(c, "failed")

\* The fetches a tick later; ages past the timeout are not told apart.
Aged ==
    [c \in Callers |->
        IF UnderWay(c) /\ fetch[c].age < FetchTimeout
        THEN [fetch[c] EXCEPT !.age = @ + 1] ELSE fetch[c]]

\* The site's part.
SiteStep(c) == Redirect(c) \/ HeadersArrive(c) \/ BodyArrives(c) \/ Breaks(c)
=============================================================================
