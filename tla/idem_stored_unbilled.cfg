\* One failing insert, and nothing else that goes wrong.
CONSTANTS
    Gateways = {g1, g2}
    Requests = {r1, r2, r3}
    Nowhere = nowhere
    FaultKinds <- OnlyWriteFails
    MaxFaults = 1
    MaxLapses = 0

SPECIFICATION Spec

INVARIANT StoredAreBilled
