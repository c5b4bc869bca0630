\* Two keys that share a watermark and one to come, one row per answer, and
\* transactions that outlast a tick of the clock.
CONSTANTS
    NoRow = NoRow
    NoAnswer = NoAnswer
    Keys = {1, 2, 3}
    Orgs = {"acme"}
    OrgOf <- OneOrg
    Existing = {1, 2}
    Lag = 2
    TxTime = 1
    Limit = 1
    MaxTime = 4
    MaxChanges = 3
    MaxFaults = 1

SPECIFICATION FairSpec

INVARIANTS
    KeysNotStranded
    SwitchNotStranded

PROPERTIES
    RevocationArrives
