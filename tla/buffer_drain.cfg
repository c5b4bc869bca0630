\* The loop and one more thread drain; three batches, replays included; the
\* capacity is hit while a chunk is out.
CONSTANTS
    Rows <- RowSet
    Tenant <- TenantOfRow
    Partition <- PartitionOfRow
    Partitions = 3
    Batches <- BatchSet
    Capacity = 3
    DrainBatch = 2
    Drainers = {loop, other}
    Loop = loop
    NoOne = nobody
    MaxCalls = 4
    MaxFailures = 1

SPECIFICATION FairSpec

INVARIANTS
    TypeOK
    NothingLost
    FreshIsFresh
    BoundedDepth
    OrderKept

PROPERTIES
    HeadsServed
    EventuallyStored
    StopEnds

\* The loop stops for good.
CHECK_DEADLOCK FALSE
