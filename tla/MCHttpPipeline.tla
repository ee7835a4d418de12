--------------------------- MODULE MCHttpPipeline ---------------------------
(***************************************************************************)
(* A statement of the repository's log lines that HttpPipeline             *)
(* contradicts.                                                            *)
(***************************************************************************)
EXTENDS HttpPipeline

\* "tracer setup failed — continuing without tracing" (api/main.go:74): no request
\* fails for want of a tracer.  Tracing calls the nil tracer it was given.
ContinuesWithoutTracing ==
    \A c \in Connections : outcome[c].panicked # "tracing"
=============================================================================
