\* Two failures in a row and the backoff after them, a settled run and the full
\* cadence after it fit into the clock; one stop or death, and one failure of
\* Postgres, a lost lock included.
CONSTANTS
    r1 = r1
    r2 = r2
    NoOne = NoOne
    Replicas = {r1, r2}
    Walk <- OnePair
    Interval <- Cadence
    Endings = {"success", "skipped", "failed"}
    BackoffBase = 1
    BackoffCap = 2
    MaxTime = 1
    MaxDeaths = 1
    MaxFaults = 1

SPECIFICATION FairSpec

INVARIANTS
    LocksHeldInPlace
    WindowSettledOnce
    BackoffKept

PROPERTIES
    KeepsPromise
    DueIsRun
