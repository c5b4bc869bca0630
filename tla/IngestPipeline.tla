--------------------------- MODULE IngestPipeline ---------------------------
(***************************************************************************)
(* The transport of SdkTransport in front of the gateway's own handler,    *)
(* _run_pipeline (infra/gateway/src/gateway/app.py), instead of a gateway  *)
(* that decides at will: intra-batch dedup (wire.py), the backpressure cut *)
(* (backpressure.py), validation and item ids (validation.py), the write,  *)
(* synchronous or through the burst buffer (ingest_buffer.py), the head    *)
(* meter (metering.py) and the receipt.  The client reads the answer by    *)
(* its own numbering of the batch (_item_positions in transport.py).       *)
(*                                                                         *)
(* receipt and landed are SdkTransport's: the recorded answer of the       *)
(* pinned batch, and the spans some receipt calls written.  There is one   *)
(* gateway process, and the batch has one handler at a time and one        *)
(* receipt, which is what IngestIdempotency shows of the claim; a record   *)
(* that fails is a crash before it or an answer all the same.  Deliveries  *)
(* that meet the claim, the rate limit or a store that cannot answer get a *)
(* 429 or a 503 and change nothing here.  The key stays valid (a 401 is    *)
(* SettleRefused), hints are left out, and a span billed is one            *)
(* record_span() took, whichever trace it was taken with.                  *)
(***************************************************************************)
EXTENDS SdkTransport

CONSTANTS TraceIds, SpanIds,  \* the ids a span may carry
          NoId,               \* "the span carries none"
          Apps,               \* the applications: what their spans are like
          OverloadKeep,       \* overload_max_batch
          Capacity,           \* the buffer's high-water mark
          MaxFaults           \* bound on failed writes and crashes

\* A valid span may be dated into a billing period that is closed.
Sort == {"valid", "invalid", "closed"}

ASSUME PipelineAssumption ==
    /\ Honest = TRUE
    /\ {"accepted", "retry", "dead", "duplicate"} \subseteq Verdicts
    /\ 0 \in Hints
    /\ NoId \notin TraceIds \cup SpanIds
    /\ Apps \subseteq [trace : [Span -> TraceIds \cup {NoId}],
                       id : [Span -> SpanIds \cup {NoId}],
                       sort : [Span -> Sort]]
    /\ OverloadKeep \in Nat \ {0}
    /\ Capacity \in Nat \ {0}
    /\ MaxFaults \in Nat

VARIABLES
    app,       \* the ids and the validity of each span
    buffered,  \* TALLY_INGEST_BUFFERED
    handler,   \* the attempt under way on a delivery of a batch
    reply,     \* what the gateway answered to the send in flight
    queue,     \* the rows in the burst buffer
    stored,    \* the rows in ClickHouse, replicas of one row merged
    billed,    \* the spans the meter of this process has recorded
    takes,     \* history: how often an attempt has handed on each span
    unsure,    \* history: spans handed on by an attempt that left no receipt
    lost,      \* history: rows that died with the process's buffer
    faults     \* failed writes and crashes so far

gatewayVars == <<app, buffered, handler, reply, queue, stored, billed, takes,
                 unsure, lost, faults>>
allVars == <<vars, gatewayVars>>

-----------------------------------------------------------------------------
(* Item ids, on both sides.                                                *)

\* The set in increasing order; as a set of sequences that has one member.
Listings(S) ==
    {q \in [1..Cardinality(S) -> S] :
        Range(q) = S /\ \A i, j \in DOMAIN q : i < j => q[i] < q[j]}

SameIds(s, r) == app.trace[s] = app.trace[r] /\ app.id[s] = app.id[r]

\* BatchRequest.deduplicated(): the positions that stay.  A span without a span
\* id is nobody's duplicate.
Kept(sent) ==
    {p \in DOMAIN sent : app.id[sent[p]] # NoId =>
        \A q \in 1..(p - 1) : ~SameIds(sent[q], sent[p])}

\* span_item_id(): trace:span, else the index in the deduplicated batch.
HasIds(s) == app.trace[s] # NoId /\ app.id[s] # NoId
ItemId(s, index) == IF HasIds(s) THEN <<"ids", app.trace[s], app.id[s]>>
                    ELSE <<"#", index>>

\* The mirror as it was before CTO-407: no dedup without a trace id.
KeptIfTraced(sent) ==
    {p \in DOMAIN sent : HasIds(sent[p]) =>
        \A q \in 1..(p - 1) : ~SameIds(sent[q], sent[p])}

\* _item_positions(): the client numbers the spans it thinks were kept.
KeptByClient(sent) ==
    {p \in DOMAIN sent : app.id[sent[p]] # NoId =>
        \A q \in 1..(p - 1) : ~SameIds(sent[q], sent[p])}
ClientItemId(sent, p) ==
    ItemId(sent[p], Cardinality({q \in KeptByClient(sent) : q < p}))
Positions(sent, item) ==
    {p \in KeptByClient(sent) : ClientItemId(sent, p) = item}

\* setdefault: the first span of that name.
Place(sent, item) ==
    CHOOSE p \in Positions(sent, item) :
        \A q \in Positions(sent, item) : p <= q

\* _classify_rejections() on an ack that accepts n spans, names the items of
\* the sequence again as RATE_LIMITED and those of refused as permanent.  An
\* item it cannot place is counted and never resent.
PlacedAcks(sent, n, again, refused) ==
    LET placed == {j \in DOMAIN again : Positions(sent, again[j]) # {}}
        ours == {item \in refused : Positions(sent, item) # {}}
    IN  {[accepted |-> n,
          retry |-> [j \in DOMAIN o |-> Place(sent, again[o[j]])],
          dead |-> {Place(sent, item) : item \in ours},
          unplacedRetry |-> Len(again) - Len(o),
          unplacedDead |-> Cardinality(refused \ ours),
          unknown |-> 0,
          hint |-> 0] : o \in Listings(placed)}

-----------------------------------------------------------------------------
(* One attempt on a batch: list is the deduplicated batch, as positions of *)
(* what was sent, keep the length backpressure leaves it, rows the indices *)
(* of list that became rows, and n how many of these were handed on.       *)

NoHandler == [stage |-> "idle", spans |-> <<>>, heard |-> FALSE, late |-> FALSE,
              answer |-> "none", verdict |-> <<>>, ack |-> NoAck, taken |-> {}]

SendInFlight == \E t \in Flushers : pc[t] = "sending"

Invalid(sent, list, k) == app.sort[sent[list[k]]] = "invalid"

\* Backpressure.evaluate(): the overflow is cut while the gateway is overloaded.
Keeps(list) == {Len(list), LesserOf(Len(list), OverloadKeep)}

Rows(sent, list, keep) == {k \in 1..keep : ~Invalid(sent, list, k)}

RefusedIndices(sent, list, keep) == {k \in 1..keep : Invalid(sent, list, k)}

\* What each span met.
Judgement(sent, list, keep, rows, n) ==
    [p \in DOMAIN sent |->
        CASE p \notin Range(list) -> "duplicate"
          [] \E k \in RefusedIndices(sent, list, keep) : list[k] = p -> "dead"
          [] \E j \in 1..n : list[rows[j]] = p -> "accepted"
          [] OTHER -> "retry"]

\* The indices of the overflow, numbered on from keep.
OverflowFromZero(list, keep) == [k \in 1..(Len(list) - keep) |-> k]
Overflow(list, keep) == [k \in 1..(Len(list) - keep) |-> keep + k]

\* The indices named RATE_LIMITED: the overflow, then the rows that were shed.
ShedIndices(list, keep, rows, n) ==
    Overflow(list, keep) \o SubSeq(rows, n + 1, Len(rows))

Names(sent, list, indices) ==
    [j \in DOMAIN indices |-> ItemId(sent[list[indices[j]]], indices[j] - 1)]

Answers(sent, list, keep, rows, n) ==
    PlacedAcks(sent, n, Names(sent, list, ShedIndices(list, keep, rows, n)),
        {ItemId(sent[list[k]], k - 1) : k \in RefusedIndices(sent, list, keep)})

\* span_to_row(): a span without both ids gets an identity derived from its
\* content and its index in the batch (CTO-402).
Row(s, index) == IF HasIds(s) THEN <<"ids", app.trace[s], app.id[s]>>
                 ELSE <<"derived", s, index>>
RowsOf(sent, list, rows, n) ==
    [j \in 1..n |-> Row(sent[list[rows[j]]], rows[j] - 1)]
SpansOf(sent, list, rows, n) == {sent[list[rows[j]]] : j \in 1..n}

HasRow(s, rows) ==
    IF HasIds(s) THEN <<"ids", app.trace[s], app.id[s]>> \in rows
    ELSE \E k \in 0..(MaxBatch - 1) : <<"derived", s, k>> \in rows

Bump(spans) == takes' = [s \in Span |-> takes[s] + (IF s \in spans THEN 1 ELSE 0)]

InitPipeline ==
    /\ Init
    /\ app \in Apps
    /\ buffered \in BOOLEAN
    /\ handler = NoHandler
    /\ reply = "none"
    /\ queue = <<>>
    /\ stored = {}
    /\ billed = {}
    /\ takes = [s \in Span |-> 0]
    /\ unsure = {}
    /\ lost = {}
    /\ faults = 0

-----------------------------------------------------------------------------
(* The client's steps, and what they mean to the gateway.                  *)

ClientMoves ==
    /\ \/ Export \/ Start \/ Stop \/ DaemonWinds
       \/ \E t \in Flushers : TakeBatch(t) \/ EncodeRaises(t)
    /\ UNCHANGED gatewayVars

Sends ==
    /\ \E t \in Flushers : Encode(t)
    /\ reply' = "none"
    /\ UNCHANGED <<app, buffered, handler, queue, stored, billed, takes,
                   unsure, lost, faults>>

\* The client acts on the answer, or on its absence: a timeout, a lost answer,
\* a 429 and a 503 all are retryable.  It hears nothing of this send any more,
\* and an attempt on a batch it no longer holds is late.
Settles ==
    /\ \E t \in Flushers :
          \/ SettleRetryable(t)
          \/ reply = "unprocessable" /\ SettleRefused(t)
          \/ /\ reply = "ok"
             /\ \/ SettleUnreadable(t) \/ SettleTruncated(t)
                \/ SettleDistrusted(t) \/ SettleRequeue(t) \/ SettleClear(t)
    /\ reply' = "none"
    /\ handler' = IF handler.stage = "idle" THEN handler
                  ELSE [handler EXCEPT !.heard = FALSE,
                                       !.late = @ \/ pending' = NoBatch]
    /\ UNCHANGED <<app, buffered, queue, stored, billed, takes, unsure, lost,
                   faults>>

-----------------------------------------------------------------------------
(* The handler.                                                            *)

\* A delivery of a batch that has a receipt: the recorded answer, as a 200.
Replay ==
    /\ SendInFlight /\ reply = "none" /\ receipt # NoReceipt
    /\ reply' = "ok"
    /\ UNCHANGED vars
    /\ UNCHANGED <<app, buffered, handler, queue, stored, billed, takes,
                   unsure, lost, faults>>

\* A delivery wins the claim, and the handler awaits ensure_fresh().  Its answer
\* will be heard if a send is still waiting for one.
Claim ==
    /\ handler.stage = "idle"
    /\ pending.encoded
    /\ receipt = NoReceipt
    /\ handler' = [NoHandler EXCEPT !.stage = "claimed", !.spans = pending.spans,
                                    !.heard = SendInFlight /\ reply = "none"]
    /\ UNCHANGED vars
    /\ UNCHANGED <<app, buffered, reply, queue, stored, billed, takes, unsure,
                   lost, faults>>

\* The attempt has its answer, which it will record and send.
Decides(list, keep, rows, n) ==
    \E ack \in Answers(handler.spans, list, keep, rows, n) :
        handler' = [handler EXCEPT
            !.stage = "decided",
            !.answer = IF rows = <<>> THEN "unprocessable" ELSE "ok",
            !.verdict = Judgement(handler.spans, list, keep, rows, n),
            !.ack = ack,
            !.taken = SpansOf(handler.spans, list, rows, n)]

\* The meter as it was before CTO-389: every row built, handed on or not.
MeterAll(list, rows, n) ==
    {s \in SpansOf(handler.spans, list, rows, Len(rows)) : app.sort[s] # "closed"}

\* record_span() for what was handed on; a closed period refuses its own spans.
Metered(list, rows, n) ==
    {s \in SpansOf(handler.spans, list, rows, n) : app.sort[s] # "closed"}

\* Nothing that was kept is valid: nothing to write, a final 422.
RejectAll(list, keep, rows) ==
    /\ rows = <<>>
    /\ Decides(list, keep, rows, 0)
    /\ UNCHANGED <<queue, stored, billed, takes, unsure, faults>>

\* The synchronous path: every row is stored, then metered.
InsertSpans(list, keep, rows) ==
    /\ ~buffered
    /\ rows # <<>>
    /\ Decides(list, keep, rows, Len(rows))
    /\ stored' = stored \cup Range(RowsOf(handler.spans, list, rows, Len(rows)))
    /\ Bump(SpansOf(handler.spans, list, rows, Len(rows)))
    /\ billed' = billed \cup Metered(list, rows, Len(rows))
    /\ UNCHANGED <<queue, unsure, faults>>

\* produce_rows(): a prefix of the rows, up to the room that other tenants' rows
\* leave in the buffer.
ProduceRows(list, keep, rows) ==
    /\ buffered
    /\ rows # <<>>
    /\ \E room \in 0..(Capacity - Len(queue)) :
          LET n == LesserOf(Len(rows), room)
          IN  /\ Decides(list, keep, rows, n)
              /\ queue' = queue \o RowsOf(handler.spans, list, rows, n)
              /\ Bump(SpansOf(handler.spans, list, rows, n))
              /\ billed' = billed \cup Metered(list, rows, n)
    /\ UNCHANGED <<stored, unsure, faults>>

\* How many rows are in the buffer when the events insert raises: all of them
\* when produce_rows() ran first (before CTO-389).
EnqueuedFirst(rows) == LesserOf(Len(rows), Capacity - Len(queue))
EnqueuedBefore(rows) == 0

\* An insert raises: the claim is released and the answer is a 503.  On the
\* synchronous path the spans may be stored all the same, because a later
\* insert of the same try raised or the failure was only a report.
WriteFails(list, keep, rows) ==
    /\ rows # <<>>
    /\ faults < MaxFaults
    /\ faults' = faults + 1
    /\ handler' = NoHandler
    /\ \/ /\ buffered
          /\ LET n == EnqueuedBefore(rows)
             IN  /\ queue' = queue \o RowsOf(handler.spans, list, rows, n)
                 /\ Bump(SpansOf(handler.spans, list, rows, n))
          /\ UNCHANGED <<stored, unsure>>
       \/ /\ ~buffered
          /\ \/ /\ stored' = stored \cup
                      Range(RowsOf(handler.spans, list, rows, Len(rows)))
                /\ Bump(SpansOf(handler.spans, list, rows, Len(rows)))
                /\ unsure' = unsure \cup SpansOf(handler.spans, list, rows, Len(rows))
             \/ UNCHANGED <<stored, takes, unsure>>
          /\ UNCHANGED queue
    /\ UNCHANGED billed

\* From the end of the await to the answer the handler does not give the event
\* loop away: deduplicate, cut, validate, write and meter are one step.
Attempt ==
    /\ handler.stage = "claimed"
    /\ \E list \in Listings(Kept(handler.spans)) :
         \E keep \in Keeps(list) :
           \E rows \in Listings(Rows(handler.spans, list, keep)) :
              \/ RejectAll(list, keep, rows)
              \/ InsertSpans(list, keep, rows)
              \/ ProduceRows(list, keep, rows)
              \/ WriteFails(list, keep, rows)
    /\ UNCHANGED vars
    /\ UNCHANGED <<app, buffered, reply, lost>>

\* record() and the answer.  The receipt of a batch the client has given up
\* reaches nobody.
Record ==
    /\ handler.stage = "decided"
    /\ handler' = NoHandler
    /\ IF handler.late
       THEN UNCHANGED <<receipt, landed>>
       ELSE /\ receipt' = [verdict |-> handler.verdict, ack |-> handler.ack]
            /\ landed' = landed \cup
                 {handler.spans[i] : i \in {j \in DOMAIN handler.verdict :
                                               Written(handler.verdict[j])}}
    /\ reply' = IF handler.heard THEN handler.answer ELSE reply
    /\ UNCHANGED codeVars
    /\ UNCHANGED fate
    /\ UNCHANGED <<app, buffered, queue, stored, billed, takes, unsure, lost,
                   faults>>

-----------------------------------------------------------------------------
(* The buffer and the process.                                             *)

\* The drain loop writes what is queued, a row at a time here.
Drain ==
    /\ queue # <<>>
    /\ stored' = stored \cup {Head(queue)}
    /\ queue' = Tail(queue)
    /\ UNCHANGED vars
    /\ UNCHANGED <<app, buffered, handler, reply, billed, takes, unsure, lost,
                   faults>>

\* The process dies with its buffer, its meter and the attempt under way, whose
\* claim lapses.  What that attempt had handed on has no receipt.
Crash ==
    /\ faults < MaxFaults
    /\ faults' = faults + 1
    /\ handler' = NoHandler
    /\ queue' = <<>>
    /\ billed' = {}
    /\ lost' = lost \cup Range(queue)
    /\ unsure' = unsure \cup handler.taken
    /\ UNCHANGED vars
    /\ UNCHANGED <<app, buffered, reply, stored, takes>>

NextPipeline ==
    \/ ClientMoves \/ Sends \/ Settles
    \/ Replay \/ Claim \/ Attempt \/ Record
    \/ Drain \/ Crash

Pipeline == InitPipeline /\ [][NextPipeline]_allVars

-----------------------------------------------------------------------------
(* Properties.                                                             *)

\* The handler of app.py and the numbering of transport.py together are the
\* honest gateway of SdkTransport: what the client reads in an ack is exactly
\* what became of each span of its batch (CTO-405, CTO-407).
ImplementsHonestTransport == Spec

\* End to end, no span is handed to the store or the buffer twice, however often
\* its batch is resent and whatever part of it is put back (#311, CTO-389),
\* unless an attempt handed it on and died or failed before its receipt.
TakenOnce == \A s \in Span : takes[s] > 1 => s \in unsure

\* The ends a counter of the transport owns up to, and the batch cleared on its
\* status alone.
Confessed == {"overflow", "undelivered", "refused", "cut", "blind", "dead"}

\* End to end, every exported span is still in hand, was dropped on a counter, was
\* dropped for another of the same ids, or has a row in the store or on its way
\* there, unless the row died with the process (app.py on ack-before-write).
AccountedFor ==
    \A s \in 1..exported :
        \/ fate[s] \in Confessed \cup {"held"}
        \/ fate[s] = "duplicate" /\ \E r \in Span \ {s} : SameIds(r, s)
        \/ /\ fate[s] = "accepted"
           /\ HasRow(s, stored \cup Range(queue) \cup lost)

\* CTO-389: the meter has recorded only spans that are stored or queued, and all
\* those of an attempt that is about to say so, but for closed periods.
BilledAreTaken ==
    /\ \A s \in billed : HasRow(s, stored \cup Range(queue))
    /\ handler.stage = "decided" =>
           {s \in handler.taken : app.sort[s] # "closed"} \subseteq billed
=============================================================================
