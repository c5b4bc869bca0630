\* The loop alone and a store that never fails.
CONSTANTS
    Rows <- RowSet
    Tenant <- TenantOfRow
    Partition <- PartitionOfRow
    Partitions = 3
    Batches <- OneRowEach
    Capacity = 3
    DrainBatch = 2
    Drainers = {loop}
    Loop = loop
    NoOne = nobody
    MaxCalls = 4
    MaxFailures = 0

SPECIFICATION Spec

INVARIANT GracefulStopDrains
CHECK_DEADLOCK FALSE
