---------------------------- MODULE RateLimiter ----------------------------
(***************************************************************************)
(* The rate limiter of the API (pkg/middleware/ratelimit.go): a budget of  *)
(* Rate requests per visitor, given anew when a request finds its window   *)
(* over, and a background task that forgets visitors.  Both run under one  *)
(* mutex, so each is one step.  Time is counted in ticks.                  *)
(***************************************************************************)
EXTENDS Integers, FiniteSets

CONSTANTS
    Addresses,  \* keys of the limiter: values of r.RemoteAddr, "ip:port" unless
                \* a proxy's header made RealIP put a bare IP there
    Rate,       \* requests per window
    Window,     \* length of the window
    MaxTime,    \* bound: the clock stops there
    NoVisitor

ASSUME RateAssumption   == Rate \in Nat \ {0}
ASSUME WindowAssumption == Window \in Nat /\ MaxTime \in Nat

VARIABLES
    now,
    visitors,  \* visitors[a]: the entry of a, NoVisitor without one
    admitted   \* history: <<a, t, n>>, the n-th request of a let through at t

limiterVars == <<now, visitors, admitted>>

Visitor == [tokens : Nat, lastReset : Nat]

ASSUME NoVisitorAssumption == NoVisitor \notin Visitor

LimiterTypeOK ==
    /\ now \in Nat
    /\ visitors \in [Addresses -> Visitor \cup {NoVisitor}]
    /\ admitted \subseteq Addresses \X Nat \X Nat

LimiterInit ==
    /\ now = 0
    /\ visitors = [a \in Addresses |-> NoVisitor]
    /\ admitted = {}

Since(a) == now - visitors[a].lastReset

NewWindow(a) == visitors[a] # NoVisitor => Since(a) > Window

AdmittedAt(a, t) == {x \in admitted : x[1] = a /\ x[2] = t}

LetThrough(a) ==
    admitted' = admitted \cup {<<a, now, Cardinality(AdmittedAt(a, now)) + 1>>}

Tick ==
    /\ now < MaxTime
    /\ now' = now + 1
    /\ UNCHANGED <<visitors, admitted>>

\* Mutant of OpenWindow: the first request is free.
OpenFreeWindow(a) ==
    /\ NewWindow(a)
    /\ visitors' = [visitors EXCEPT ![a] = [tokens |-> Rate, lastReset |-> now]]
    /\ LetThrough(a)
    /\ UNCHANGED now

\* allow: the first request of a visitor, and the first after the window, opens a
\* window and takes one token of it.
OpenWindow(a) ==
    /\ NewWindow(a)
    /\ visitors' = [visitors EXCEPT ![a] = [tokens |-> Rate - 1, lastReset |-> now]]
    /\ LetThrough(a)
    /\ UNCHANGED now

\* allow: within the window a request takes a token.
TakeToken(a) ==
    /\ ~NewWindow(a)
    /\ visitors[a].tokens > 0
    /\ visitors' = [visitors EXCEPT ![a].tokens = @ - 1]
    /\ LetThrough(a)
    /\ UNCHANGED now

\* allow: without a token the answer is 429, and nothing changes.
Refused(a) ==
    /\ ~NewWindow(a)
    /\ visitors[a].tokens <= 0
    /\ UNCHANGED limiterVars

\* Mutant of Cleanup: visitors are forgotten within their window.
CleanupTooEarly ==
    /\ visitors' = [a \in Addresses |-> NoVisitor]
    /\ UNCHANGED <<now, admitted>>

\* cleanup: visitors whose window ended a window ago are forgotten.  The ticker
\* fires every five minutes, and the mutex may come at any time after.
Cleanup ==
    /\ visitors' = [a \in Addresses |->
           IF visitors[a] # NoVisitor /\ Since(a) > 2 * Window
           THEN NoVisitor ELSE visitors[a]]
    /\ UNCHANGED <<now, admitted>>

LimiterNext ==
    \/ Tick
    \/ \E a \in Addresses : OpenWindow(a) \/ TakeToken(a) \/ Refused(a)
    \/ Cleanup

LimiterSpec == LimiterInit /\ [][LimiterNext]_limiterVars

-----------------------------------------------------------------------------
(* Properties *)

\* Requests of a let through in the interval t .. t + Window.
Count(a, t) ==
    Cardinality({x \in admitted : x[1] = a /\ x[2] \in t .. t + Window})

\* In no interval as long as a window does an address get more than two budgets:
\* the end of one window and the start of the next, whatever cleanup forgets
\* (allow and cleanup).
AtMostTwoBudgets ==
    \A a \in Addresses : \A t \in 0 .. now : Count(a, t) <= 2 * Rate

\* The tokens left and the requests let through make up the budget of the present
\* window (allow).
BudgetKept ==
    \A a \in Addresses : visitors[a] # NoVisitor =>
        visitors[a].tokens +
            Cardinality({x \in admitted : x[1] = a /\ x[2] >= visitors[a].lastReset})
        = Rate
=============================================================================
