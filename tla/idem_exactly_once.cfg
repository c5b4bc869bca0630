\* Two processes, three deliveries at once, two faults of any kind, two lapses.
CONSTANTS
    Gateways = {g1, g2}
    Requests = {r1, r2, r3}
    Nowhere = nowhere
    FaultKinds <- EveryFault
    MaxFaults = 2
    MaxLapses = 2

SPECIFICATION FairSpec

INVARIANTS
    ClaimsExclusive
    WritesPaidFor
    BilledOnce
    ReceiptMeansWritten
    AnswersAgree

PROPERTY NeverBlocked
