# A TLA+ model of ai-tally's ingest path and background jobs

ai-tally meters the AI spend of its tenants: an SDK inside the customer's
application builds spans, a gateway ingests them, ClickHouse stores them and a
meter bills them; scheduled jobs add the costs the providers report, and an edge
proxy admits calls by a replicated list of keys. A span that is lost, or written
twice, is wrong money that nothing downstream can identify; a revoked key that
stays in a cache still admits. These modules model the paths where that can
happen. TLC checks them on small instances and TLAPS proves the main safety
properties for every value of the constants. Paths below are relative to the
repository.

## 1. The system

| part | state it keeps | operations | talks to |
|---|---|---|---|
| SDK transport (`sdk/python/src/tally/transport.py`) | bounded buffer, one pinned batch with its bytes and attempts, round budget, pacing, loss counters | `export`, `flush_once`, `flush`, `start`, `stop` | gateway over HTTP; application threads |
| SDK wire (`wire.py`) | `IdempotencyCache`: one entry per (tenant, batch) | encode/decode, dedup, peek/reserve/record/release | used on both sides |
| ingest handler (`infra/gateway/.../app.py`, `_run_pipeline`) | none of its own | authenticate, limit, claim, validate, write, meter, record | all the parts below |
| batch idempotency (`batch_idempotency.py`) | one Postgres row per batch, claim tokens per process, the cache | `claim`, `record`, `release` | Postgres |
| burst buffer (`ingest_buffer.py`, `buffer.py`, `partition.py`) | a FIFO per partition, the set of seen rows, a drain task | `produce_rows`, `drain_once`, `stop` | handler, ClickHouse |
| backpressure, rate limit, quota, meter | counters per tenant | `evaluate`, `check`, `record_span` | handler |
| scheduler (`scheduler.py`) | run history in Postgres, one advisory lock per (job, tenant) pair, each a session of its own | `tick_once`, `stop` | Postgres, the jobs |
| cost connector job (`cost_connector_job.py`, `connectors/base.py`) | none: what is owed is read off the stored spans | one run per tenant: a window per connector, one span per billed day | providers, ClickHouse |
| integration workers (`integration_workers.py`, `ingest_cursors.py`) | a cursor per tenant and integration | one cycle: window, fetch, insert, advance | third parties, ClickHouse, Postgres |
| API keys and their feed (`tenant_api_keys.py`, `tenant_proxy.py`, `edge_keys.py`) | `api_keys`, `tenant_proxy_config` | create, rotate, revoke, `set_enabled`; `changes_since` | Postgres, edge proxy |
| edge proxy (Go) | a key cache and its cursor; a channel of records, loss counters | `Refresh`; `Record`, `post`, `Close` | providers, gateway |
| stitcher, reconciliation | derived tables | one run per tenant | ClickHouse |
| control plane, exports, replay and evals, dashboard | rows in Postgres and ClickHouse | CRUD, batch jobs, reads | - |

`PROJECT.json` lists all of them with their files, modelled or not.

What is hard in this code, and so what the properties are about:

* *Interleaving.* `export()` never waits for a flush; the worker and callers of
  `flush()` share one pinned batch. Gateway processes race on one row, and
  inside a process a handler gives the event loop away at one `await`. Several
  threads may drain the burst buffer.
* *Delivery.* An answer may be lost after the write; the resend must be the same
  batch. A 200 may refuse some spans and accept others.
* *Failure in the middle.* Between the claim and the receipt a process may die,
  Postgres or ClickHouse may fail, and a write may have taken effect although
  it was reported as failed.
* *Time.* Leases and windows lapse while their holder still runs.
* *Numbering.* An ack names spans by id or by their number in a batch that both
  sides have deduplicated on their own; they have to agree on every number.
* *Bounds.* A full buffer meets a re-enqueue; a spent budget meets a late ack.
* *Visibility.* Rows of `api_keys` become visible out of the order of the time
  stamps the feed is sorted by; a lock may be gone while its holder works on.
* *Liveness.* A gateway that sheds for ever, a failing insert, a shutdown.

What makes each part correct: the transport loses no span silently, sends none
twice, counts what it lost, and stays within its memory; the idempotency gate
lets one handler at a time process a batch, has it written and billed once
unless a lease lapses, and gives all deliveries one answer; the buffer keeps what
it acknowledged until it is stored, in order, and gives every tenant its turn.
The whole path accounts for every span: stored, on its way, or on a counter. The
scheduler settles no window twice and forgets none; the jobs bill a day once and
leave no day behind, and no event but those that fail to map or that the provider's
answer lacked; the edge cache ends up with the keys that live.

## 2. The modules

| module | models | proofs |
|---|---|---|
| `SdkTransport` | `BatchingTransport`, the gateway as its environment | `SdkTransportProofs` |
| `IngestIdempotency` | the deliveries of one batch through `_run_pipeline`, the durable claim and the cache | `IngestIdempotencyProofs` |
| `IngestBuffer` | `AsyncIngestBuffer`, `InMemoryBuffer`, `BufferConsumer` | `IngestBufferProofs` |
| `IngestPipeline` | `SdkTransport` composed with the handler: dedup, overload cut, validation, item ids on both sides, write or buffer, meter, receipt | `IngestPipelineProofs`, over those of `SdkTransport` |
| `JobRuns` | what the scheduler promises: the abstract specification | `SchedulerProofs` |
| `Scheduler` | `tick_once` on several replicas; implements `JobRuns` | `SchedulerProofs` |
| `BackgroundJobs` | the cost connector job and the ingest cycle | `BackgroundJobsProofs` |
| `EdgeKeys` | the writers of keys, the delta feed, the proxy's cache | `EdgeKeysProofs` |
| `DataFacts` | nothing of the code: lemmas on sequences, sums and recursive functions | its own |
| `MC...` | the constants TLC needs | |

Each component module begins with its constants and one named assumption about
them, then its state, one action per operation, the specification, and its
properties. A few operators, next to the one they stand beside, are wrong
variants of it (a dropped guard, a missing reset); nothing in the specification
uses them. They exist to show that each property notices such a bug.

Two refinements tie the modules together. `IngestPipeline` implements
`SdkTransport` with an honest gateway (`ImplementsHonestTransport`): what
`SdkTransport` assumes of the answers is what the handler and the client's reading
of them amount to. `Scheduler` implements `JobRuns` (`KeepsPromise`), and of the
scheduler `BackgroundJobs` uses only what `JobRuns` promises: while its lock
lives, a body is alone with its pair.

### SdkTransport

`flush_once` holds `_flush_lock` throughout and `_lock` only for short state
changes, so a flush is three steps and exports interleave between them:
`TakeBatch` (reclaim the pinned batch or pin a new one), `Encode` or
`EncodeRaises` (outside `_lock`), and one of the `Settle...` actions (under
`_lock`, from the answer on). There is one settlement per way out of the code:
refused, retryable (repinned or shed), unreadable ack, truncated ack, distrusted
ack, ack that puts spans back, ack that does not. Spans are numbers in the order
of their export; the batch id is left implicit, because a batch is pinned under
one id and there is at most one.

`GatewayDecides` is the other side: after the bytes were first sent the gateway
reaches a verdict on every span of the pinned batch and keeps the answer in
`receipt`; every resend is answered from it. That is what `IngestIdempotency`
establishes within the idempotency window. With `Honest` the ack reports the
verdicts, otherwise it may be any ack. A retryable settlement may come before or
after the decision: this is the lost request and the lost answer. `fate` and
`landed` are history variables; `fate` is compared with the counters.

Time is left out. `failing` records that a backoff is owed (`BackoffOwed`), not
that it is waited out: the worker does wait, but a thread in `flush()` sleeps 0.1 s at
most and the final drain of `stop()` not at all, so `TakeBatch` may come at any time.
Hints are applied before the ack is judged, so an unreadable or a truncated ack may
carry one (`ApplyReadableHints`). An ack names positions of the batch here; how item ids become
positions is in `IngestPipeline`. A worker is restarted only after the former one
has ended.

### IngestIdempotency

One batch, any number of deliveries, several processes. A claim has a token: the
`updated_at` its statement stamped on the row. `row` is the Postgres row, `cache`
and `claims` are each process's memory. The handler's path is

    Replay | ClaimWon | ClaimLost | ClaimFails        check_or_store
    ReadRow                                           claim()'s second statement
    Resume                                            after the await of ensure_fresh
    RejectAll | Write | WriteFails                    decide, write, meter
    Record | Release                                  the end of the attempt

A process runs its handlers on one event loop, so `LoopFree` lets a handler have
its process to itself except while it awaits; between any two steps other
processes may act. Every fault of `FaultKinds` may strike where the code handles it:
a claim may be committed although the connection broke, spans may be stored
although the insert raised, a receipt may be written although all three attempts
failed, an answer may not arrive. `Crash` clears a process's memory.
`LeaseLapses`, `WindowEnds` and `CacheExpires` are the passing of time.

Abstractions: the outcome of a batch is accepted or rejected (PARTIAL is an
acceptance of some of its spans); an attempt may reject what another would
accept, because under load the overflow is cut before validation;
authentication, limits and enrichment do not touch this state; `landed` counts
inserts, so the merging of ReplacingMergeTree, which the code relies on as its
last resort, is not credited. A handler is assumed not to outlast the
idempotency window (24 h by default), though it may outlast its lease. The
prune of old receipts has no caller in the repository and is left out, and so is
the fallback of a gateway that has no Postgres table. An exception between the
claim and its end that no handler catches, which would leave the reservation
behind, is left out too.

### IngestBuffer

A row stands for its dedup key. `ProduceRows` takes a prefix of a batch up to the
capacity. `drain_once` is three steps: `TakeChunk` under `_lock`, then under
`_consume_lock` `PickFresh` (the look at `_seen`) and `Insert` or `InsertFails`,
which puts the whole chunk back. The fair drain is the state machine
`Draining`/`PopNext`, run to the end by a recursive function. `Stop` and
`LoopWinds` are the shutdown: running, stopping, flushing, stopped. Requests have
ended before the shutdown stops the buffer, as the gateway's lifespan does it.

Copies of one row inside one chunk are all fresh and are all inserted, as in
`BufferConsumer.consume`; so `stored` may hold a row twice, and no property says
otherwise, although the comment at `buffer.py:124` does.

### IngestPipeline

The client is `SdkTransport`, action by action; `GatewayDecides` is taken apart into
the handler:

    Replay            a delivery of a batch that has a receipt
    Claim             a delivery wins the claim and awaits ensure_fresh()
    Attempt           RejectAll | InsertSpans | ProduceRows | WriteFails
    Record            the receipt, and the answer if a send still waits for it
    Drain, Crash      the burst buffer writes a row; the process dies

`Attempt` is one step because between the await and the answer the handler does
not give the event loop away. It deduplicates (`Kept`), cuts the overflow of an
overloaded gateway (`Keeps`, `Overflow`), judges the rest, hands rows to the store
or the buffer, meters them, and names what it refused by item ids. The client
places these ids by its own dedup and numbering (`KeptByClient`, `ClientItemId`,
`Place`), and only positions reach the settlement. An answer is lost, late or
replayed whenever the client settles before it comes; `handler.late` is an attempt
on a batch the client has meanwhile given up.

What a span is like is fixed by an *application*, `app`: its trace id, its span id
(or none) and whether it is valid, invalid, or valid in a billing period that is
closed. Two spans may share their ids. A row is identified by its ids, or by
content and index for a span without both (`Row`).

Abstractions: one gateway process and one handler of the batch at a time, a late
one ending before the next claim, as `IngestIdempotency` shows; a record that
fails is a crash before it, or an answer all the same. A 401 or 403 is
`SettleRefused`, which `sdk_honest` covers; a 429 or 503 changes nothing. Hints and
unknown codes are left out (`Hints` is {0}); a flag such as UNKNOWN_FEATURE_TAG
leaves a span as good as valid. Span ids are strings. A delivery that was sent
but first claimed after the client gave its batch up is left out. The meter
counts spans and not traces, lives in memory and dies with its process.

### JobRuns and Scheduler

`JobRuns` has one action per thing that can happen to a body: it begins when the
history says its pair is due, it loses its lock, it finishes with a row, it is
abandoned without one. `IsDue`, with `BackoffDelay` and `WindowPassed`, is the due
calculation of the code. `Scheduler` is the loop: `ReadState`, `Acquire`,
`Reread`, `BodyEnds`, `Record`, `Release`, each a call that leaves the event loop,
with the other replicas in between. Postgres may fail every one of them, with the
row committed or not; a session, and the lock with it, may end under a body;
a replica is stopped, dies and boots again. The refinement maps the bodies of
`JobRuns` to the replicas in a body; it is the identity on the clock and the
history.

All replicas read one clock. The connection pool, a scheduler without a lock
provider (a single process) and what a body does are left out.

### BackgroundJobs

A cost body takes unit after unit: `PlanUnit` (the window from the stored spans,
the fetches), then for each day `CheckSpan` (is it there?) and `InsertSpan`, which
are two calls; `EmitRaises` ends a unit, a failed fetch costs one series. An ingest
cycle is `Window`, `Ingest`, `Advance`. Of what the provider knows the cycle's one
answer may lack any part: a body of a shape `as_event_list` does not know is taken
for no events, of many pages it gets the first. An event that fails to map (`Unmappable`) makes the cycle partial and
is counted (`unmapped`), and the cursor advances all the same; an event the cursor
passes by because the answer lacked it is in `overlooked`, and no cycle asks for it
again. A body may crash, raise, or lose its lock and go on (`LoseLock`), and then
the scheduler may start another one next to it.
`given` and `waived` record what the code gives up by design: days of a series
with nothing in sight, events before the initial lookback of a cycle that knew no
cursor. Amounts, attributes, credentials and each provider's format are left out;
a day has spend or has none. The clock's unit is the day for the one job and the
granularity of cursors for the other; a tenant configures one of them.

### EdgeKeys

A transaction has the stamp of its beginning (`now()` in Postgres) and its rows
appear when it commits. `BeginChange`/`CommitChange` are create, rotate and revoke,
`BeginToggle`/`Look`/`CommitToggle` the switch of an organization, whose UPDATE works on
a snapshot. `FeedAnswers` is one page of `changes_since`, `Apply` what `Refresh` does
with it; `PollFails` and `Restart` are the faults. `overlooked` records the keys of the
race the code leaves open: committed too late for the switch's snapshot, read by
the feed before the switch committed. Key names and scopes decide nothing here.
The assumption `TxTime < Lag` is the code's own sizing of the safe lag.

## 3. What TLC checks

Every run also checks for deadlock, except the two of the buffer, whose loop stops
for good.

| run | asks | size |
|---|---|---|
| `sdk_honest` | no double send, true counters, no silent loss, identical resends, a backoff owed while anything waits to be resent | 3 spans, buffer 2, batch 2, budget 2, two threads, all eight verdicts, a hint of 1; 2.4 million states |
| `sdk_any_gateway` | exactly one place for each span, losses partitioned, bounded memory, and that spans leave and the final drain ends, when an ack may say anything | 3 spans, the last not encodable, budget 1, two threads, fairness; 0.24 million states |
| `idem_exactly_once` | exclusive claims, writes and bills paid for, true receipts, one answer, a batch never blocked for ever | 2 processes, 3 deliveries, 2 faults of any kind, 2 lapses; 1.3 million states |
| `buffer_drain` | nothing lost, no double insert by two drainers, order, fairness, bounded depth, progress, shutdown | 4 rows, 2 tenants, 3 partitions, capacity 3, chunks of 2, 2 drainers, 1 failing insert; 0.5 million states |
| `pipeline` | handler and client are an honest gateway; every span taken once, accounted for, billed only if taken | 3 spans, batches of 3, budget 2, two applications, both modes, 1 fault; 1.6 million states |
| `scheduler` | no window settled twice, backoff kept across replicas, locks never left behind, due jobs run, `JobRuns` implemented | 2 replicas, 1 pair, 1 stop or death, 1 fault; 0.26 million states |
| `jobs_catch_up` | a day billed once, no hole left, a success leaves nothing owed, the cursor skips nothing | 2 replicas, 3 series in 2 units, 4 events (one late, one that fails to map), 2 mishaps; 0.59 million states |
| `edge_keys` | no key and no switch stranded behind the cursor, revocations arrive | 3 keys, 1 row per page, 3 transactions that overlap, 1 fault; 0.1 million states |

Where a type invariant is a theorem it is not repeated in the runs, but for the
buffer's, which says in which partition a row may be.

*Why the bounds are enough.* Two spans fill the buffer and a batch, so the third
is the export that overflows, or that finds a buffer a re-enqueue will overfill;
a budget of two has a first retry, a last one and none. Of three deliveries one
can hold a claim, one a stale claim and one arrive; with two faults one can
undo the recovery from the other; with two lapses a reclaimed claim can
lapse as well. In the buffer a tenant has rows at two heads and the other one
behind it, the capacity is reached while a chunk is out, and four calls repeat
rows. In the pipeline the batch of three has two spans of one id in front of one
without ids, so that a numbering that is off by one names another span, and an
invalid span, one in a closed period and one with half an identity; a buffer of two takes a
part of it; one fault is a crash or a failed write. In the scheduler two replicas
meet on one pair; the clock has room for two failures and the backoff after them,
or a settled run and the window after it. In the jobs a unit of two series can have
one behind the other, and the clock outruns the catch-up and the lookback. In the
feed two keys share a watermark with one row to a page, and a transaction outlasts
a tick. The bounds are `NumSpans`, `MaxFaults`, `MaxLapses`, `MaxCalls`,
`MaxFailures`, `MaxTime`, `MaxDeaths`, `MaxMishaps` and `MaxChanges`; each is in the guard
of its action. A lapse of a claim whose holder is gone costs nothing: the recovery
is never cut short. `sdk_any_gateway` runs without hints, with which it takes more than
its time; `sdk_honest` has a hint of 1, and for every hint `BoundedMemory` is a theorem.

*Fairness.* Transport: a thread inside a flush goes on, because a send has a
timeout; the worker is scheduled; the application owes no export and no stop,
the gateway owes no answer. `_flush_lock` is a plain lock, so an application
thread that calls `flush()` in a loop on a batch it cannot encode can keep the
worker from ever taking it, and an encoder that raises ends the worker: both
liveness properties except a pinned batch that cannot be encoded. Idempotency:
handlers go on and the clock runs. Nothing is asked of the client, which gives up
long before an abandoned claim can be reclaimed (see below): `NeverBlocked` says that
again and again every process would meet an outcome or win the claim. Buffer:
threads inside a drain go on,
the loop drains again, and inserts do not fail for ever. Scheduler: the loop of a
living replica goes on, so bodies end; nobody is obliged to start a process anew.
Key feed: the clock runs, transactions end, the proxy polls on. The runs `pipeline`
and `jobs_catch_up` assume no fairness and ask nothing that needs it.

### Disagreements between the code and its documentation

Four runs end in a counterexample, each for one sentence of the repository.

* `sdk_raises`: "Never raises" (`transport.py:653`). A span `json.dumps` cannot
  serialise raises out of `flush_once`, ends the worker, and stays pinned in
  front of everything exported later.
* `idem_provisional`: "claiming acceptance for spans we have not seen land would
  be a fabricated success" (`batch_idempotency.py:439`). During the await of
  the price refresh a second delivery in the same process gets the provisional
  ACCEPTED of the reservation, with nothing written.
* `idem_stored_unbilled`: "billed and stored are the same set by construction"
  (`app.py:1188`). Three inserts share a `try`; if the first succeeds and another
  raises, the spans are stored and the attempt is not metered.
* `buffer_stop`: "Drain everything remaining on shutdown" (`ingest_buffer.py:169`).
  A final chunk of replays makes `drain_once` return 0, which ends the flush
  with acknowledged rows still queued.

Smaller ones, seen while modelling and stated in the properties that do hold:

* Per-trace order (`partition.py`) is lost when a failed chunk goes back to the
  tail (`OrderKept` excludes it); the drain's fairness reaches only tenants at the
  head of a partition and starts each chunk at the first one (`HeadsServed`);
  `_requeue_locked` drops what it calls the oldest in the order the ack named it.
* "A replayed batch returns the original response" (`wire.py:11`): a batch whose spans
  are all invalid gets a 422, its replay a 200. The client drops it whole on the
  first, the spans named RATE_LIMITED under load included; it is an end that
  `AccountedFor` counts as confessed.
* After a write that succeeded in part, or a crash before the receipt, a resend under
  load may name a stored span RATE_LIMITED. It then comes back in another batch, and
  without ids it gets another identity there, against "a retry presents the same
  spans in the same order" (`mapping.py`, CTO-402). These are `unsure` in `TakenOnce`.
* `record_span`'s docstring says it is called before any shed; the handler meters
  after the write (CTO-389), which is what `BilledAreTaken` states.
* A $0 day gets no span and moves no window: after `MAX_CATCHUP_DAYS` of them in a row
  the cost job covers the same days again until they are out of sight; and a series
  of a shared unit that was never billed does not hold the window back, which the
  docstring of `billing_window` says it does. Both are `given` in `NoHoleBehind`.
* A cursor that cannot be read and is older than the initial lookback loses events,
  against the docstring of `_window` (`integration_workers.py`); they are `waived`.
* On a failed cycle "advancing here would silently drop every event"
  (`integration_workers.py:380-381`); a body of unknown shape or a first page is a success
  of no or few events, advances, and drops the others as silently (`overlooked`). Of the
  events that fail to map (`unmapped`) "the failure itself is not lost"
  (`integration_workers.py:422`): it is, if the process dies after the advance, before
  `record_run`.
* The lease "bounds how long a worker that died ... can block a legitimate retry"
  (`batch_idempotency.py:68-70`). After the holder's crash `BatchingTransport` asks 5
  times, a second apart (`app.py:952`) and at most 30 s; the lease has 300 s. So the batch is
  shed as undelivered before it can be claimed again, and `NeverBlocked` helps only
  a client that is more patient.
* `edge_keys.py:51` says the proxy pages until a short page; `Refresh` takes one page
  per tick. A key can keep a stale switch after the race described above
  (`overlooked`).

## 4. What TLAPS proves

All theorems are about the specifications without fairness, for every value of
the constants that satisfies the module's named assumption, and rest on no other,
but for `NoDoubleSendHolds`, `CountersTellTheTruthHolds` and `NoSilentLossHolds`,
which assume `Honest`.

**SdkTransport.** `HeldExactlyOnce` is not inductive: that a settlement disposes
of exactly the pinned spans depends on the flight of the thread being the pinned
batch, and that an export is new depends on the numbering. `HeldInv` adds:

* `OneFlight`: a thread is inside `flush_once` exactly while it holds the flush
  lock; what it has in flight is then the pinned batch, and it sends encoded bytes;
* `NumberedInOrder`: the spans without a fate are those not exported yet;
* `ReceiptOfPinned`: a receipt belongs to the pinned, encoded batch, one verdict
  per span, and its ack is one the gateway may send;
* `TypeOK`, `HeldExactlyOnce`, `BoundedMemory`.

There is one lemma per action (`ExportHeld`, `TakeBatchHeld`, ..., `RequeueHeld`),
which `HeldInvStep` collects. `AgainOfPinned` says that the spans an ack asks for
are distinct spans of the batch; `RefillHeld` does the arithmetic of the cap.
From `HeldInv` follow `TypeCorrect`, `HeldExactlyOnceHolds`, `BoundedMemoryHolds`
and the action property `ResendsIdenticalHolds`, all without trust in the gateway.
`NoDoubleSendHolds` needs `WrittenInv` besides: what a truthful ack asks for again
was not written (`AgainUnwritten`).

`NoLossCountedTwiceHolds` is about counters and so about cardinalities. `LossInv` says
that the loss figures and the spans in hand are together no more than what was
exported, and that `dropped` is the sum of the figures; `BookedLoss` is its core: what a trusted ack accepts,
names and leaves out cannot exceed the batch, so a settlement books no more than it
takes out of hand. `BackoffOwedHolds` follows step by step from `HeldInv`: whatever
unpins a batch either clears the rounds with the pacing or leaves the backoff owed.

`CountersTellTheTruthHolds` compares each counter with the number of spans of a fate
(`MetIn`). On top of `HeldInv` it is inductive as it stands: spans that had none of some
fates and get them are so many more (`MetAdds`), and every settlement is such a
change, of a whole batch (`BatchGains`), of the span an export shuts out
(`ExportGains`), or of the positions with a verdict and the spans asked for again
(`JudgedGains`, `AgainSpent`, `AgainKept`). `BookedTruly` is the other side: what the
client books from a truthful ack, by subtraction, is the number of its refusals but
for the written spans with an unknown flag, and such an ack is never distrusted
(`TruthConsistent`). `NoSilentLossHolds` needs `WordInv` besides: a span said to be
written is written, and none is left with the fate of being asked for again. What is
missing then met one of the fates of `Gone`, which the counters add up to.

**IngestIdempotency.** A process never runs two handlers of the batch, because
the reservation of the first answers the second. So the token a process holds is
its handler's own and its release can only delete its own claim (`OwnClaim`);
tokens are not reused and the row carries the newest (`FreshTokens`); a claim in
use, or one whose write nobody disowned, keeps the row until it is outlived
(`RowKept`); and each control point says how far its claim has come in `landed`
and `metered` (`Progress`). These are `ClaimInv`. A stale `Record` writes its
outcome onto the row of a newer claim, which is why `RowKept` speaks of tokens
and not of outcomes. `AgreeInv` adds what the answers
so far say about the row and the caches, as long as nothing has outlived a
lease. `InvariantHolds` proves both; `TypeCorrect`, `ClaimsExclusiveHolds`,
`WritesPaidForHolds`, `BilledOnceHolds`, `ReceiptMeansWrittenHolds` and
`AnswersAgreeHolds` follow. So the two ways to write a batch twice, a lapse and a
write reported as failed, are the only ones, with any number of processes.

**IngestBuffer.** The drain is a recursive function, and so are the filters and the
sums the other definitions use; what they compute is proved by induction over sets
(below). A drain is described first: `DrainsKeep` says, of any queues, that a
finished drain has cut each queue into a front, which is what the chunk has of that
partition in the same order, and a rest (`DrainedFrom`), that it is within the batch
size, and that its first round has met every head unless the chunk is full before
(`FirstRound`). The inductive invariant is `BufferInv`:

* `TypeOK`, `NothingLost`, `BoundedDepth`;
* `StagesHold`: a thread has a chunk exactly while it is between taking and
  returning it, holds the consume lock exactly while it inserts, and its fresh rows
  are those of its chunk, unknown to the store;
* `InOrder`: as long as nothing is disturbed, every partition's accepted rows are, in
  order, the stored ones, those in hand and those queued, up to rows seen before.

`BoundedDepthHolds` is a sum over the partitions and the threads: a put-back moves a
chunk from one to the other (`SumWithOneChanged`), a request fills at most what is
free. `OrderKeptHolds` compares first positions in sequences of which one is
a filtered prefix of the other. `BufferTypeHolds`, `NothingLostHolds` and
`FreshIsFreshHolds` are parts of the invariant, `HeadsServedHolds` a property of
every step. All six hold for any partitions, tenants, capacity, chunk size, finite
set of drainers and number of failures.

**DataFacts.** Induction over data, which the library states with an operator as a
parameter, is stated here with a set instead: a set of numbers that has 0 and with
each number the next has them all (`NatInductionOnSet`), and likewise for sequences
and finite sets. `StepsDefine` gives from that the recursive functions: one whose
value at `n` is made from its value at `n - 1` exists and is what its definition says. Then
come sums of functions over finite sets, of which the folds of the community modules
are made, and lemmas on cutting, joining, appending and picking sequences.

**JobRuns and Scheduler.** `RunsInv` is `OneAtATime`, `WindowSettledOnce`,
`BackoffKept` and `BodiesDue`: a body under its lock still is due in the history as it is,
because nobody else can have recorded a held run since. `LoopKeepsPromise` is the
refinement: from `SchedulerInv` (types; a held lock names its replica and the
replica is at that pair; the times of a body are in order) every step of the loop
is a step of `JobRuns` or leaves clock, history and bodies alone
(`StepKeepsPromise`). `LocksAreInUse` is the part of it about locks;
`WindowsSettledOnce` and `BackoffsKept` are inherited from `JobRuns`
(`PromiseSettlesOnce`) through the refinement.

**EdgeKeys.** `EdgeInvHolds` proves the invariant, and `KeysNotStrandedHolds` and
`SwitchNotStrandedHolds` follow. Its core is `CursorsLag`: the cursor, and the cursor of an
answer on its way, are at least the lag in the past, while every open transaction
is younger than it. So what a commit changes lies ahead of the cursor
(`CommittedIsAhead`), and a page says of its keys what is still true, or will be
said again.

**BackgroundJobs.** `CursorSkipsNothingHolds` from `CursorInv`: an event up to
the cursor, or up to where a cycle may still move it, is stored, counted as failed to map,
waived or overlooked, or the cycle knows that its answer lacked it; the overlap covers
lateness and skew. `DayBilledOnceHolds` from `BilledInv`: the spans of a day, and the bodies
about to insert one, are at most one more than the bodies that ever went on
without their lock. That needs to know that at most one body of a job holds its
lock (`OneHeld`) and that the strays at work are among those counted.
`NoHoleBehindHolds` and `SuccessMeansBilledHolds` come from `HoleInv`: what a job has
still to emit is in turn (`InTurn`: the days with spend before each of its spans are
closed, or come before it), and what an unfailed job found due is billed or still to
be emitted (`DueRemembered`). A plan makes the first true (`PlannedInTurn`): a
window starts no later than after the newest billed day in sight of each of its
series, behind which there is no hole, and gives up what it skips of the others
(`BeforeWindow`); within it the provider's days come in order (`CostsInOrder`). A
body that went on without its lock only adds spans, which closes more. That
providers answer in the order of days is part of the model (`DailyCosts`): the code emits
in the order it gets.

**IngestPipeline.** The heart is that two programs number a batch alike. The
handler names a refused span by an item id, made of the ids of the span or of its
content and index in the deduplicated batch; the client dedups and numbers again, and
looks the id up. Both keep the first span of each identity, in order
(`KeptListed`), and different kept spans have different ids (`NamesDiffer`), so an id
leads to the position it came from (`PlacedRight`). With what becomes of each
position (`JudgedAs`; `ShedInPlace` for the overflow of an overloaded gateway), the
ack the client hears is a truthful one (`AnswersTruthfully`). `HandlerInv` is the
rest of the refinement: unless it is late, an attempt is on the pinned batch, which has
no receipt yet; so a step of the handler is `GatewayDecides`, an answer of
`SdkTransport`, or a stutter (`PipelineStep`). Hence
`PipelineImplementsHonestTransport`, and everything proved of `SdkTransport` with an
honest gateway holds of the composition (`PipelineNeverSendsTwice`,
`PipelineCountsTheTruth`).

`PipelineInv` adds what the store knows. `TakesInv`: a span handed on once is
recorded as written (`landed`), about to be recorded, or given up by the client; at a claim
none of the batch has been handed on, which is where `WrittenInv` of the transport
is needed, and a late attempt is on spans that met their end. `AccountInv`: each
word of a decided attempt or a receipt already has its row or its namesake, so that
the settlement may believe it; the client never distrusts a truthful ack
(`TruthConsistent`). With `StoreInv` they give `PipelineTakesOnce`,
`PipelineAccounts` and `PipelineBillsWhatItTook`, in both modes, with any
application, batch size, budget and number of faults.

**Only model-checked.** All liveness: TLAPS 1.4.5 has no proof of it under
fairness, and ENABLED, hence the absence of deadlock. Every invariant and every action
property that a run finds to hold is a theorem as well.

## 5. Not modelled, and why

Backoff durations, log damping and the key bootstrap of the transport; a `stop()`
whose join times out; `decode_request`, for a body the SDK wrote decodes to what
it encoded; which attributes make a span valid, mapping and pricing (pure functions
of attributes); the rate limiter, whose refusals are 429s that change nothing on
this path; the connection pool of the scheduler; the proxy's telemetry sink and its
routing; the older `BatchProcessor`, which only tests drive; ClickHouse merging; the
control plane, exports, evals and replay (sequential CRUD and batch jobs, no
protocol between two parties); the onboarding bot and MCP server; the dashboard;
deployment. Most of the repository is of that kind, and modelling it would restate
it. Hazards without a property are listed with their reason in `PROJECT.json`.

## 6. What is left

1. `EdgeSink`: the Go sink with its full channel, retries, drain grace and `Close`.
2. `RateLimiter`: bucket and quota in one check, where a batch larger than the burst
   can never be admitted.
