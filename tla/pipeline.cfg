\* One flushing thread, batches of up to three spans, two kinds of application, both modes.
CONSTANTS
    NumSpans = 3
    MaxBuffer = 3
    MaxBatch = 3
    RetryMax = 2
    Flushers = {d}
    Daemon = d
    NoOne = nobody
    Unencodable <- NoSpans
    Verdicts <- HandlerVerdicts
    Honest = TRUE
    Hints <- NoHints
    TraceIds = {"t"}
    SpanIds = {"i"}
    NoId = "-"
    Apps <- SomeApps
    OverloadKeep = 1
    Capacity = 2
    MaxFaults = 1

SPECIFICATION Pipeline

INVARIANTS
    TakenOnce
    AccountedFor
    BilledAreTaken

PROPERTY
    ImplementsHonestTransport
