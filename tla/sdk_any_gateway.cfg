\* The worker and one flush() caller; the last span cannot be encoded and an
\* ack may say anything.
CONSTANTS
    NumSpans = 3
    MaxBuffer = 2
    MaxBatch = 2
    RetryMax = 1
    Flushers = {d, c}
    Daemon = d
    NoOne = nobody
    Unencodable <- LastSpan
    Verdicts <- OnlyAccepts
    Honest = FALSE
    Hints <- NoHints

SPECIFICATION FairSpec

INVARIANTS
    HeldExactlyOnce
    NoLossCountedTwice
    BoundedMemory

PROPERTIES
    EventuallySettled
    DrainEnds
