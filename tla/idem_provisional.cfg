\* No fault at all: two deliveries of the batch meet in one process.
CONSTANTS
    Gateways = {g1, g2}
    Requests = {r1, r2, r3}
    Nowhere = nowhere
    FaultKinds <- NoFault
    MaxFaults = 0
    MaxLapses = 0

SPECIFICATION Spec

INVARIANT NoFabricatedSuccess
