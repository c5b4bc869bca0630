\* The worker and one flush() caller, every verdict, a hint that shrinks the batch.
CONSTANTS
    NumSpans = 3
    MaxBuffer = 2
    MaxBatch = 2
    RetryMax = 2
    Flushers = {d, c}
    Daemon = d
    NoOne = nobody
    Unencodable <- NoSpans
    Verdicts <- Verdict
    Honest = TRUE
    Hints <- OneHint

SPECIFICATION Spec

INVARIANTS
    NoDoubleSend
    CountersTellTheTruth
    NoSilentLoss
    BackoffOwed

PROPERTY
    ResendsIdentical
