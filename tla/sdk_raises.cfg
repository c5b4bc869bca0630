\* The first span cannot be encoded.
CONSTANTS
    NumSpans = 3
    MaxBuffer = 2
    MaxBatch = 2
    RetryMax = 2
    Flushers = {d}
    Daemon = d
    NoOne = nobody
    Unencodable <- FirstSpan
    Verdicts <- OnlyAccepts
    Honest = TRUE
    Hints <- NoHints

SPECIFICATION Spec

INVARIANT
    FlushNeverRaises
