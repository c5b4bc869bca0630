---------------------------- MODULE IngestBuffer ----------------------------
(***************************************************************************)
(* AsyncIngestBuffer (infra/gateway/src/gateway/ingest_buffer.py) over     *)
(* InMemoryBuffer and BufferConsumer (buffer.py): request handlers enqueue *)
(* span rows, a background loop drains them to ClickHouse.                 *)
(*                                                                         *)
(* A row stands for its dedup key: the same row produced again is a replay *)
(* of the same span.  _lock is held for one step at a time; a drain is     *)
(* three steps (take a chunk, pick its fresh rows, insert), the last two   *)
(* under _consume_lock.  Besides the loop, drain_once may be called from   *)
(* any other thread.                                                       *)
(***************************************************************************)
EXTENDS Integers, Sequences, FiniteSets, SequencesExt

CONSTANTS Rows,         \* the span rows, by dedup key
          Tenant,       \* the tenant of each row
          Partition,    \* the partition of each row: trace_partition
          Partitions,   \* how many partitions there are
          Batches,      \* the row sequences produce_rows may be given
          Capacity,     \* capacity
          DrainBatch,   \* drain_batch
          Drainers,     \* the threads that may run drain_once
          Loop,         \* the one of them that runs _run and _flush
          NoOne,        \* "nobody holds _consume_lock"
          MaxCalls,     \* how many times produce_rows is called
          MaxFailures   \* how many inserts fail

ASSUME ConstantsAssumption ==
    /\ Partitions \in Nat \ {0}
    /\ Partition \in [Rows -> 1..Partitions]
    /\ DOMAIN Tenant = Rows
    /\ Batches \subseteq Seq(Rows)
    /\ Capacity \in Nat \ {0}
    /\ DrainBatch \in Nat \ {0}
    /\ IsFiniteSet(Drainers)
    /\ Loop \in Drainers
    /\ NoOne \notin Drainers
    /\ MaxCalls \in Nat
    /\ MaxFailures \in Nat

VARIABLES
    queues,       \* _queues: a FIFO of rows per partition
    seen,         \* _seen: the rows known to be in the store
    consumeLock,  \* the thread that holds _consume_lock, or NoOne
    pc,           \* where each thread is inside drain_once
    chunk,        \* the rows each thread has drained
    fresh,        \* those of them it found unseen
    phase,        \* the background loop: running, stopping, flushing, stopped
    calls,        \* calls of produce_rows so far
    failures,     \* failed inserts so far
    accepted,     \* history: the rows produce_rows took, in order
    stored,       \* history: the rows in ClickHouse, in order of arrival
    disturbed     \* history: an insert failed or another thread drained

vars == <<queues, seen, consumeLock, pc, chunk, fresh, phase, calls, failures,
          accepted, stored, disturbed>>

-----------------------------------------------------------------------------
Parts == 1..Partitions

\* The rows of a partition, and those of a sequence that are in a set.
In(p) == {r \in Rows : Partition[r] = p}
Only(rows, set) ==
    LET only[i \in 0..Len(rows)] ==
          IF i = 0 THEN <<>>
          ELSE IF rows[i] \in set THEN Append(only[i - 1], rows[i]) ELSE only[i - 1]
    IN  only[Len(rows)]

DepthOf(qs) == SumFunction([p \in DOMAIN qs |-> Len(qs[p])])
Depth == DepthOf(queues)

Init ==
    /\ queues = [p \in Parts |-> <<>>]
    /\ seen = {}
    /\ consumeLock = NoOne
    /\ pc = [d \in Drainers |-> "idle"]
    /\ chunk = [d \in Drainers |-> <<>>]
    /\ fresh = [d \in Drainers |-> <<>>]
    /\ phase = "running"
    /\ calls = 0 /\ failures = 0
    /\ accepted = <<>> /\ stored = <<>>
    /\ disturbed = FALSE

\* All the rows in the partition of the first one.
EnqueueTogether(qs, rows) ==
    [p \in Parts |-> IF rows # <<>> /\ Partition[rows[1]] = p THEN qs[p] \o rows ELSE qs[p]]
\* InMemoryBuffer.produce: each row at the tail of its partition.
Enqueue(qs, rows) == [p \in Parts |-> qs[p] \o Only(rows, In(p))]

\* The room of an empty buffer.
WholeCapacity == Capacity
Free == IF Depth < Capacity THEN Capacity - Depth ELSE 0

\* produce_rows: a prefix is taken, up to the capacity, the rest is shed.
\* Requests have ended before the shutdown stops the buffer.
ProduceRows(rows) ==
    /\ phase = "running"
    /\ calls < MaxCalls
    /\ calls' = calls + 1
    /\ LET taken == SubSeq(rows, 1, IF Len(rows) < Free THEN Len(rows) ELSE Free)
       IN  /\ queues' = Enqueue(queues, taken)
           /\ accepted' = accepted \o taken
    /\ UNCHANGED <<seen, consumeLock, pc, chunk, fresh, phase, failures,
                   stored, disturbed>>

-----------------------------------------------------------------------------
(* InMemoryBuffer.drain.                                                   *)

Least(S) == CHOOSE p \in S : \A q \in S : p <= q

\* A drain in progress: what is left, what is out, the next partition of this
\* round, and the tenants this round has served.
Draining(qs) == [queues |-> qs, out |-> <<>>, next |-> 1, served |-> {}]

\* Taking the newest row of a partition.
PopLast(st, p, served) ==
    LET row == Last(st.queues[p])
    IN  [queues |-> [st.queues EXCEPT ![p] = Front(@)],
         out |-> Append(st.out, row),
         next |-> p + 1,
         served |-> served \cup {Tenant[row]}]
PopFrom(st, p, served) ==
    LET row == Head(st.queues[p])
    IN  [queues |-> [st.queues EXCEPT ![p] = Tail(@)],
         out |-> Append(st.out, row),
         next |-> p + 1,
         served |-> served \cup {Tenant[row]}]

\* A round over the partitions, whoever is at their heads.
RoundOfPartitions(st) ==
    {p \in st.next..Partitions : st.queues[p] # <<>>}

\* The partitions this round may still take from.
RoundOfTenants(st) ==
    {p \in st.next..Partitions :
        st.queues[p] # <<>> /\ Tenant[Head(st.queues[p])] \notin st.served}

\* The next row out: of this round or, when the round is over, of a new one.
PopNext(st) ==
    LET nonempty == {p \in Parts : st.queues[p] # <<>>}
    IN  IF nonempty = {} THEN st
        ELSE IF RoundOfTenants(st) # {}
             THEN PopFrom(st, Least(RoundOfTenants(st)), st.served)
             ELSE PopFrom(st, Least(nonempty), {})

\* The drains that have popped DrainBatch rows, or all there are: just one.
Drains(qs) ==
    LET after[n \in 0..DrainBatch] ==
          IF n = 0 THEN {Draining(qs)} ELSE {PopNext(st) : st \in after[n - 1]}
    IN  after[DrainBatch]

-----------------------------------------------------------------------------
(* drain_once.                                                             *)

MayDrain(d) == d = Loop => phase \in {"running", "stopping", "flushing"}

\* Take a chunk off the queues, under _lock.
TakeChunk(d) ==
    /\ pc[d] = "idle"
    /\ MayDrain(d)
    /\ Depth > 0
    /\ \E drained \in Drains(queues) :
         /\ queues' = drained.queues
         /\ chunk' = [chunk EXCEPT ![d] = drained.out]
    /\ pc' = [pc EXCEPT ![d] = "drained"]
    /\ disturbed' = (disturbed \/ d # Loop)
    /\ UNCHANGED <<seen, consumeLock, fresh, phase, calls, failures, accepted, stored>>

\* _consume_lock is free.
NoConsumeLock == TRUE
ConsumeLockFree == consumeLock = NoOne

\* consume: pick the rows that are not in _seen.  Copies of a row inside one
\* chunk are all picked.
PickFresh(d) ==
    /\ pc[d] = "drained"
    /\ ConsumeLockFree
    /\ consumeLock' = d
    /\ fresh' = [fresh EXCEPT ![d] = Only(chunk[d], Rows \ seen)]
    /\ pc' = [pc EXCEPT ![d] = "inserting"]
    /\ UNCHANGED <<queues, seen, chunk, phase, calls, failures, accepted,
                   stored, disturbed>>

\* A loop that a drain of nothing ends, flushing or not.
AnyZeroEnds(written) == written = 0
\* _flush stops at the first drain_once that returns 0 or raises; _run goes on.
LoopEnds(written) == phase = "flushing" /\ written = 0

\* A lock taken and given back by hand, which a raise leaves locked.
LockLeaks(written) == IF written = 0 THEN consumeLock ELSE NoOne
\* "with self._consume_lock" gives it back either way.
LockAfter(written) == NoOne

\* drain_once is over: it returned a count, or raised, which counts as 0 here.
Return(d, written) ==
    /\ pc' = [pc EXCEPT ![d] = "idle"]
    /\ chunk' = [chunk EXCEPT ![d] = <<>>]
    /\ fresh' = [fresh EXCEPT ![d] = <<>>]
    /\ consumeLock' = LockAfter(written)
    /\ phase' = IF d = Loop /\ LoopEnds(written) THEN "stopped" ELSE phase

\* insert_spans succeeds, or there was nothing fresh to insert.
Insert(d) ==
    /\ pc[d] = "inserting"
    /\ stored' = stored \o fresh[d]
    /\ seen' = seen \cup ToSet(fresh[d])
    /\ Return(d, Len(fresh[d]))
    /\ UNCHANGED <<queues, calls, failures, accepted, disturbed>>

\* A chunk that is put back only as far as there is room.
PutBackWithinCapacity(d) ==
    Enqueue(queues, SubSeq(chunk[d], 1, IF Len(chunk[d]) < Free THEN Len(chunk[d]) ELSE Free))
\* The whole chunk goes back to the tails of its partitions.
PutBack(d) == Enqueue(queues, chunk[d])

\* insert_spans raises, with or without having stored the rows.
InsertFails(d) ==
    /\ pc[d] = "inserting"
    /\ fresh[d] # <<>>
    /\ failures < MaxFailures
    /\ failures' = failures + 1
    /\ queues' = PutBack(d)
    /\ stored' \in {stored, stored \o fresh[d]}
    /\ disturbed' = TRUE
    /\ Return(d, 0)
    /\ UNCHANGED <<seen, calls, accepted>>

-----------------------------------------------------------------------------
(* The background loop.                                                    *)

\* stop() sets the event and awaits the task.
Stop ==
    /\ phase = "running"
    /\ phase' = "stopping"
    /\ UNCHANGED <<queues, seen, consumeLock, pc, chunk, fresh, calls,
                   failures, accepted, stored, disturbed>>

\* _run leaves its loop for _flush, and _flush ends on an empty buffer.
LoopWinds ==
    /\ pc[Loop] = "idle"
    /\ \/ phase = "stopping" /\ phase' = "flushing"
       \/ phase = "flushing" /\ Depth = 0 /\ phase' = "stopped"
    /\ UNCHANGED <<queues, seen, consumeLock, pc, chunk, fresh, calls,
                   failures, accepted, stored, disturbed>>

DrainOnce(d) == TakeChunk(d) \/ PickFresh(d) \/ Insert(d) \/ InsertFails(d)

Next ==
    \/ \E rows \in Batches : ProduceRows(rows)
    \/ \E d \in Drainers : DrainOnce(d)
    \/ Stop \/ LoopWinds

Spec == Init /\ [][Next]_vars

\* Every thread inside drain_once gets on, the loop keeps draining, and an
\* insert that may fail does not fail for ever (MaxFailures).
Fairness ==
    /\ \A d \in Drainers : WF_vars(PickFresh(d) \/ Insert(d) \/ InsertFails(d))
    /\ WF_vars(TakeChunk(Loop))
    /\ WF_vars(LoopWinds)

FairSpec == Spec /\ Fairness

-----------------------------------------------------------------------------
TypeOK ==
    /\ queues \in [Parts -> Seq(Rows)]
    /\ \A p \in Parts : \A i \in DOMAIN queues[p] : Partition[queues[p][i]] = p
    /\ seen \subseteq ToSet(stored)
    /\ consumeLock \in Drainers \cup {NoOne}
    /\ pc \in [Drainers -> {"idle", "drained", "inserting"}]
    /\ chunk \in [Drainers -> Seq(Rows)]
    /\ fresh \in [Drainers -> Seq(Rows)]
    /\ phase \in {"running", "stopping", "flushing", "stopped"}
    /\ calls \in 0..MaxCalls /\ failures \in 0..MaxFailures
    /\ accepted \in Seq(Rows) /\ stored \in Seq(Rows)
    /\ disturbed \in BOOLEAN

Queued == UNION {ToSet(queues[p]) : p \in Parts}
Drained == UNION {ToSet(chunk[d]) : d \in Drainers}

\* At least once: a row produce_rows has acknowledged is in the store, in a
\* queue or in a thread's hands, however the inserts fail and interleave.
NothingLost == ToSet(accepted) \subseteq ToSet(stored) \cup Queued \cup Drained

\* The rows a thread is about to insert are still unknown to the store: no other
\* drain writes them between the look at _seen and the insert.
FreshIsFresh ==
    \A d \in Drainers : ToSet(fresh[d]) \cap seen = {}

\* The memory of the buffer: chunks put back may exceed the capacity, but only
\* by what the drainers can hold.
InHands == SumFunction([d \in Drainers |-> Len(chunk[d])])
BoundedDepth == Depth + InHands <= Capacity + DrainBatch * Cardinality(Drainers)

FirstAt(seq, r) == Least({i \in DOMAIN seq : seq[i] = r})

\* "Every span of a trace hashes to the same partition, so a consumer sees them
\* in produce order" (partition.py): true as long as the loop drains alone and
\* no insert has failed.
OrderKept ==
    ~disturbed =>
      \A r, s \in ToSet(accepted) :
        /\ Partition[r] = Partition[s]
        /\ FirstAt(accepted, r) < FirstAt(accepted, s)
        /\ s \in ToSet(stored)
        => r \in ToSet(stored) /\ FirstAt(stored, r) < FirstAt(stored, s)

Heads(qs) == {Tenant[Head(qs[p])] : p \in {q \in Parts : qs[q] # <<>>}}
Served(d) == {Tenant[chunk[d][i]] : i \in DOMAIN chunk[d]}

\* Fairness of a drain: every tenant with a row at the head of a partition is
\* in the chunk, when the chunk has a place for each of them; a burst of one
\* tenant in many partitions does not push another one out.
HeadsServed ==
    [][\A d \in Drainers :
         chunk[d] = <<>> /\ chunk'[d] # <<>> /\ Cardinality(Heads(queues)) <= DrainBatch
           => Heads(queues) \subseteq Served(d)']_vars

\* While the loop runs every acknowledged row reaches the store: a failed insert
\* neither ends the loop nor strands its chunk.
EventuallyStored ==
    \A r \in Rows :
      (r \in ToSet(accepted) /\ phase = "running")
          ~> (r \in ToSet(stored) \/ phase = "stopping")

\* stop() returns.
StopEnds == phase = "stopping" ~> phase = "stopped"

\* "Drain everything remaining on shutdown so a graceful stop doesn't drop
\* buffered rows" (_flush): with a healthy store every row is written.
GracefulStopDrains ==
    phase = "stopped" /\ failures = 0 => ToSet(accepted) \subseteq ToSet(stored)
=============================================================================
