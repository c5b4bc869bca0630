\* One kind of job per tenant; two mishaps of any kind.
CONSTANTS
    r1 = r1
    r2 = r2
    e1 = e1
    e2 = e2
    e3 = e3
    e4 = e4
    Replicas = {r1, r2}
    Skew <- ClockSkew
    Configurations <- OneJob
    MaxTime = 4
    MaxMishaps = 2
    Units <- TwoUnits
    Spend <- SpendDays
    CatchUp = 2
    Lookback = 3
    Events = {e1, e2, e3, e4}
    Unmappable = {e4}
    Time <- EventTimes
    Lag <- EventLags
    Overlap = 2
    InitialLookback = 2

SPECIFICATION Spec

INVARIANTS
    DayBilledOnce
    NoHoleBehind
    SuccessMeansBilled
    CursorSkipsNothing
