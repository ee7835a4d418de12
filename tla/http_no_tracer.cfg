\* FF_TRACING_ENABLED, with an exporter that may not be made.
SPECIFICATION Spec
CONSTANTS
    Addresses = {a1}
    Rate = 2
    Window = 1
    MaxTime = 4
    NoVisitor = NoVisitor
    Callers = {c1, c2}
    FetchTimeout = 2
    MaxRedirects = 2
    FlagSets = {{"tracing"}}
    WriteTimeout = 1
INVARIANT ContinuesWithoutTracing
