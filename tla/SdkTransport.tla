---------------------------- MODULE SdkTransport ----------------------------
(***************************************************************************)
(* BatchingTransport, the Python SDK's exporter (sdk/python/src/tally/     *)
(* transport.py): application threads export spans into a bounded buffer   *)
(* while a daemon thread and any caller of flush() send them in batches.   *)
(*                                                                         *)
(* A flush holds _flush_lock from end to end and _lock only for its short  *)
(* state changes, so one flush is three steps here (take, encode, settle)  *)
(* and exports interleave between them.  The gateway is the environment:   *)
(* it decides a fate for every span of a batch, keeps that answer as the   *)
(* receipt of the batch, and its answer may be lost, late, unreadable or,  *)
(* when Honest is FALSE, simply wrong.  Time is abstracted: every wait and *)
(* backoff is just the freedom to take the next step later.                *)
(***************************************************************************)
EXTENDS Integers, Sequences, FiniteSets, Functions

CONSTANTS NumSpans,      \* how many spans the application exports
          MaxBuffer,     \* max_buffer
          MaxBatch,      \* the configured max_batch_size
          RetryMax,      \* retry_max
          Flushers,      \* the threads that may run flush_once
          Daemon,        \* the one of them that is the background worker
          NoOne,         \* "nobody holds _flush_lock"
          Unencodable,   \* the spans json.dumps cannot serialise
          Verdicts,      \* the verdicts the gateway reaches
          Honest,        \* does the gateway tell the truth in its acks
          Hints          \* the server_hints.max_batch_size values; 0 for none

\* The gateway's verdict on one span.  "duplicate" is a span the gateway
\* neither writes nor names; the two unknown ones carry a code this SDK does
\* not know, on a span that was written or on one that was refused.
Verdict == {"accepted", "retry", "dead", "duplicate", "unplacedRetry",
            "unplacedDead", "unknownFlag", "unknownRefusal"}

ASSUME ConstantsAssumption ==
    /\ NumSpans \in Nat
    /\ MaxBuffer \in Nat \ {0}
    /\ MaxBatch \in Nat \ {0}
    /\ RetryMax \in Nat \ {0}
    /\ Daemon \in Flushers
    /\ NoOne \notin Flushers
    /\ Unencodable \subseteq 1..NumSpans
    /\ Verdicts \subseteq Verdict
    /\ Honest \in BOOLEAN
    /\ Hints \subseteq Nat

VARIABLES
    exported,    \* spans exported so far; they are numbered in that order
    buf,         \* _buf
    pending,     \* _pending; no spans means None
    flushLock,   \* the thread inside flush_once, or NoOne
    pc,          \* where each thread is inside flush_once
    flight,      \* each thread's own (batch, body, attempts)
    daemon,      \* the background worker's life
    stopping,    \* _stop
    batchLimit,  \* max_batch_size as the last hint left it
    rounds,      \* _partial_retry_rounds
    failing,     \* _consecutive_failures > 0
    shed,        \* the counters shed_counts() reports
    dropped,     \* obs.dropped_span_count
    receipt,     \* what the gateway decided about the pinned batch, if it has
    landed,      \* the spans the gateway has written
    fate         \* history: what became of each span

codeVars == <<exported, buf, pending, flushLock, pc, flight, daemon, stopping,
              batchLimit, rounds, failing, shed, dropped>>
vars == <<exported, buf, pending, flushLock, pc, flight, daemon, stopping,
          batchLimit, rounds, failing, shed, dropped, receipt, landed, fate>>

-----------------------------------------------------------------------------
Span == 1..NumSpans

NoBatch == [spans |-> <<>>, encoded |-> FALSE, attempts |-> 0]

Buckets == {"undelivered", "rejected", "rejectedByGateway",
            "unmappedRetryable", "bufferOverflow", "unknownCode"}

Written(v) == v \in {"accepted", "unknownFlag"}

Fate == Verdict \cup
        {"none", "held", "overflow", "undelivered", "refused", "cut", "blind",
         "distrusted"}

\* Every order in which some of the positions 1..n can be named once each.
Orders(n) ==
    {o \in UNION {[1..k -> 1..n] : k \in 0..n} : IsInjective(o)}

\* The part of a BatchResponse the client acts on, after _item_positions and
\* _classify_rejections have placed its item ids.
Ack(n) == [accepted : 0..(n + 1), retry : Orders(n), dead : SUBSET (1..n),
           unplacedRetry : 0..n, unplacedDead : 0..n, unknown : 0..n,
           hint : Hints]

Count(v, kinds) == Cardinality({i \in DOMAIN v : v[i] \in kinds})

\* The acks that report exactly what the gateway decided.
TruthfulAcks(v) ==
    [accepted : {Count(v, {"accepted", "unknownFlag"})},
     retry : {o \in Orders(Len(v)) : Range(o) = {i \in DOMAIN v : v[i] = "retry"}},
     dead : {{i \in DOMAIN v : v[i] = "dead"}},
     unplacedRetry : {Count(v, {"unplacedRetry"})},
     unplacedDead : {Count(v, {"unplacedDead"})},
     unknown : {Count(v, {"unknownFlag", "unknownRefusal"})},
     hint : Hints]

\* The acks a gateway may send: any at all, when it is not trusted.  One
\* permanent verdict settles an item, so no position is in both lists.
Acks(v) == IF Honest THEN TruthfulAcks(v)
           ELSE {a \in Ack(Len(v)) : Range(a.retry) \cap a.dead = {}}

NoAck == [accepted |-> 0, retry |-> <<>>, dead |-> {}, unplacedRetry |-> 0,
          unplacedDead |-> 0, unknown |-> 0, hint |-> 0]
NoReceipt == [verdict |-> <<>>, ack |-> NoAck]

LesserOf(a, b) == IF a <= b THEN a ELSE b
GreaterOf(a, b) == IF a >= b THEN a ELSE b

Init ==
    /\ exported = 0
    /\ buf = <<>>
    /\ pending = NoBatch
    /\ flushLock = NoOne
    /\ pc = [t \in Flushers |-> "idle"]
    /\ flight = [t \in Flushers |-> NoBatch]
    /\ daemon = "none"
    /\ stopping = FALSE
    /\ batchLimit = MaxBatch
    /\ rounds = 0
    /\ failing = FALSE
    /\ shed = [b \in Buckets |-> 0]
    /\ dropped = 0
    /\ receipt = NoReceipt
    /\ landed = {}
    /\ fate = [s \in Span |-> "none"]

-----------------------------------------------------------------------------
(* The application's side.                                                 *)

\* The spans of a set meet one fate.
Meet(spans, f) == fate' = [s \in Span |-> IF s \in spans THEN f ELSE fate[s]]

\* export(): drop the oldest when the buffer is full, then append.
Export ==
    /\ exported < NumSpans
    /\ exported' = exported + 1
    /\ \/ /\ Len(buf) < MaxBuffer
          /\ buf' = Append(buf, exported + 1)
          /\ fate' = [fate EXCEPT ![exported + 1] = "held"]
          /\ UNCHANGED <<shed, dropped>>
       \/ /\ Len(buf) >= MaxBuffer
          /\ buf' = Append(Tail(buf), exported + 1)
          /\ fate' = [fate EXCEPT ![exported + 1] = "held",
                                  ![Head(buf)] = "overflow"]
          /\ shed' = [shed EXCEPT !["bufferOverflow"] = @ + 1]
          /\ dropped' = dropped + 1
    /\ UNCHANGED <<pending, flushLock, pc, flight, daemon, stopping,
                   batchLimit, rounds, failing, receipt, landed>>

\* start() runs when there is no thread object: none was started, or stop() has
\* joined it.  A worker started after stop() finds _stop already set, since
\* nothing clears it, and goes straight to the final drain.
Start ==
    /\ daemon \in {"none", "done"} \/ (daemon = "died" /\ stopping)
    /\ daemon' = IF stopping THEN "draining" ELSE "running"
    /\ UNCHANGED <<exported, buf, pending, flushLock, pc, flight, stopping,
                   batchLimit, rounds, failing, shed, dropped, receipt,
                   landed, fate>>

Stop ==
    /\ ~stopping
    /\ stopping' = TRUE
    /\ UNCHANGED <<exported, buf, pending, flushLock, pc, flight, daemon,
                   batchLimit, rounds, failing, shed, dropped, receipt,
                   landed, fate>>

\* The worker's loop sees _stop and turns to its final drain, which it leaves
\* when nothing is left (a failed flush ends it too, see Finish).
DaemonWinds ==
    /\ pc[Daemon] = "idle"
    /\ \/ daemon = "running" /\ stopping /\ daemon' = "draining"
       \/ /\ daemon = "draining" /\ buf = <<>> /\ pending = NoBatch
          /\ daemon' = "done"
    /\ UNCHANGED <<exported, buf, pending, flushLock, pc, flight, stopping,
                   batchLimit, rounds, failing, shed, dropped, receipt,
                   landed, fate>>

-----------------------------------------------------------------------------
(* flush_once, up to the send.                                             *)

MayFlush(t) == t = Daemon => daemon \in {"running", "draining"}

\* _flush_lock is free.
NoFlushLock == TRUE
FlushLockFree == flushLock = NoOne

\* Take _flush_lock, then reclaim the pinned batch or pin a new one cut from
\* the head of the buffer.
TakeBatch(t) ==
    /\ MayFlush(t)
    /\ pc[t] = "idle"
    /\ FlushLockFree
    /\ flushLock' = t
    /\ pc' = [pc EXCEPT ![t] = "taken"]
    /\ \/ /\ pending # NoBatch
          /\ flight' = [flight EXCEPT ![t] = pending]
          /\ UNCHANGED <<buf, pending>>
       \/ /\ pending = NoBatch
          /\ buf # <<>>
          /\ LET n == LesserOf(batchLimit, Len(buf))
             IN  /\ pending' = [NoBatch EXCEPT !.spans = SubSeq(buf, 1, n)]
                 /\ buf' = SubSeq(buf, n + 1, Len(buf))
          /\ flight' = [flight EXCEPT ![t] = pending']
    /\ UNCHANGED <<exported, daemon, stopping, batchLimit, rounds, failing,
                   shed, dropped, receipt, landed, fate>>

Encodable(spans) == Range(spans) \cap Unencodable = {}

\* Serialise once, outside _lock, and pin the bytes; then the send begins.
Encode(t) ==
    /\ pc[t] = "taken"
    /\ flight[t].encoded \/ Encodable(flight[t].spans)
    /\ pc' = [pc EXCEPT ![t] = "sending"]
    /\ flight' = [flight EXCEPT ![t].encoded = TRUE]
    /\ pending' = IF pending.spans = flight[t].spans
                  THEN [pending EXCEPT !.encoded = TRUE] ELSE pending
    /\ UNCHANGED <<exported, buf, flushLock, daemon, stopping, batchLimit,
                   rounds, failing, shed, dropped, receipt, landed, fate>>

\* A batch whose encoding failed is still the pinned one.
StaysPinned == UNCHANGED pending

\* The encoder raises: nothing in flush_once catches it.  It ends the worker's
\* thread; in flush() safe_block swallows it.
EncodeRaises(t) ==
    /\ pc[t] = "taken"
    /\ ~flight[t].encoded /\ ~Encodable(flight[t].spans)
    /\ pc' = [pc EXCEPT ![t] = "idle"]
    /\ flight' = [flight EXCEPT ![t] = NoBatch]
    /\ flushLock' = NoOne
    /\ daemon' = IF t = Daemon THEN "died" ELSE daemon
    /\ StaysPinned
    /\ UNCHANGED <<exported, buf, stopping, batchLimit, rounds,
                   failing, shed, dropped, receipt, landed, fate>>

-----------------------------------------------------------------------------
(* The gateway, seen from the client.                                      *)

\* The gateway processes the pinned batch, at any time after its bytes were
\* first sent, and remembers its answer: every resend is a replay of it.
GatewayDecides ==
    /\ pending # NoBatch
    /\ pending.encoded
    /\ receipt = NoReceipt
    /\ \E v \in [1..Len(pending.spans) -> Verdicts] :
          /\ landed' = landed \cup
                {pending.spans[i] : i \in {j \in DOMAIN v : Written(v[j])}}
          /\ \E a \in Acks(v) : receipt' = [verdict |-> v, ack |-> a]
    /\ UNCHANGED codeVars
    /\ UNCHANGED fate

-----------------------------------------------------------------------------
(* flush_once, from the answer on: one step under _lock.                   *)

\* The flush is over; one that returns False ends a draining worker's loop.
Finish(t, delivered) ==
    /\ pc' = [pc EXCEPT ![t] = "idle"]
    /\ flight' = [flight EXCEPT ![t] = NoBatch]
    /\ flushLock' = NoOne
    /\ daemon' = IF t = Daemon /\ daemon = "draining" /\ ~delivered
                 THEN "done" ELSE daemon

\* The batch is over.
KeptPinned == UNCHANGED <<pending, receipt>>
Unpin == pending' = NoBatch /\ receipt' = NoReceipt

\* _shed_locked: the terminal loss of a whole batch.
ShedBatch(t, bucket, f) ==
    /\ shed' = [shed EXCEPT ![bucket] = @ + Len(flight[t].spans)]
    /\ dropped' = dropped + Len(flight[t].spans)
    /\ Meet(Range(flight[t].spans), f)
    /\ Unpin

\* A non-2xx answer no resend can change.
SettleRefused(t) ==
    /\ pc[t] = "sending"
    /\ ShedBatch(t, "rejected", "refused")
    /\ failing' = TRUE
    /\ Finish(t, FALSE)
    /\ UNCHANGED <<exported, buf, stopping, batchLimit, rounds, landed>>

BudgetSpent(attempts) == attempts >= RetryMax

\* Pin the same batch, with the same bytes, for its next attempt.
RepinUnencoded(t, attempts) ==
    pending' = [flight[t] EXCEPT !.attempts = attempts, !.encoded = FALSE]
Repin(t, attempts) == pending' = [flight[t] EXCEPT !.attempts = attempts]

\* A transport error, a 429 or a 5xx: keep the same bytes pinned for the next
\* attempt, or shed the batch when the budget is spent.
SettleRetryable(t) ==
    /\ pc[t] = "sending"
    /\ LET attempts == flight[t].attempts + 1
       IN  \/ /\ BudgetSpent(attempts)
              /\ ShedBatch(t, "undelivered", "undelivered")
           \/ /\ ~BudgetSpent(attempts)
              /\ Repin(t, attempts)
              /\ UNCHANGED <<shed, dropped, receipt, fate>>
    /\ failing' = TRUE
    /\ Finish(t, FALSE)
    /\ UNCHANGED <<exported, buf, stopping, batchLimit, rounds, landed>>

Delivered(t) == pc[t] = "sending" /\ receipt # NoReceipt

\* _apply_hints_locked: a ceiling only, never above the configured one.
ApplyHints(hint) ==
    batchLimit' = IF hint = 0 THEN batchLimit
                  ELSE GreaterOf(1, LesserOf(MaxBatch, hint))

\* Of an ack whose outcomes cannot be used the hints still count, if they are read.
ApplyReadableHints == \E hint \in {0, receipt.ack.hint} : ApplyHints(hint)

ClearPacing == failing' = FALSE /\ rounds' = 0

\* A 2xx whose ack says nothing of the spans: clear on the status alone.
SettleUnreadable(t) ==
    /\ Delivered(t)
    /\ ApplyReadableHints
    /\ Meet(Range(flight[t].spans), "blind")
    /\ Unpin
    /\ ClearPacing
    /\ Finish(t, TRUE)
    /\ UNCHANGED <<exported, buf, stopping, shed, dropped, landed>>

\* A 2xx whose ack was longer than the read cap: the whole batch is booked as
\* an unattributed loss.
SettleTruncated(t) ==
    /\ Delivered(t)
    /\ ApplyReadableHints
    /\ ShedBatch(t, "rejectedByGateway", "cut")
    /\ ClearPacing
    /\ Finish(t, TRUE)
    /\ UNCHANGED <<exported, buf, stopping, landed>>

NamedWithUnknown(a) ==
    Len(a.retry) + Cardinality(a.dead) + a.unplacedRetry + a.unplacedDead + a.unknown

\* How many outcomes the ack names.  Unknown codes are left out on purpose: an
\* unknown flag is already inside the accepted count.
Named(a) == Len(a.retry) + Cardinality(a.dead) + a.unplacedRetry + a.unplacedDead

AnythingGoes(n, a) == TRUE
Consistent(n, a) == a.accepted + Named(a) <= n

\* An ack that claims more outcomes than the batch had spans is distrusted
\* whole: clear on the status alone.
SettleDistrusted(t) ==
    /\ Delivered(t)
    /\ ~Consistent(Len(flight[t].spans), receipt.ack)
    /\ ApplyHints(receipt.ack.hint)
    /\ Meet(Range(flight[t].spans), "distrusted")
    /\ Unpin
    /\ ClearPacing
    /\ Finish(t, TRUE)
    /\ UNCHANGED <<exported, buf, stopping, shed, dropped, landed>>

WholeBatch(t) == flight[t].spans

\* The spans an ack asks for again, in the order it names them.
Again(t) == [k \in DOMAIN receipt.ack.retry |->
                flight[t].spans[receipt.ack.retry[k]]]

\* _requeue_locked: in front of the buffer, and then drop from the head until
\* the cap holds again.
Refilled(t) == Again(t) \o buf
NoExcess(t) == 0
Excess(t) == GreaterOf(0, Len(Refilled(t)) - MaxBuffer)

\* Spans neither accepted nor named are lost and never resent.
Unattributed(n, a) == GreaterOf(0, n - a.accepted - Named(a) - a.unknown)
LostAndNamed(n, a) == Cardinality(a.dead) + a.unplacedDead
LostForGood(n, a) == Cardinality(a.dead) + a.unplacedDead + Unattributed(n, a)

\* What the ack books before any span is put back.
Booked(n, a) ==
    [shed EXCEPT !["rejectedByGateway"] = @ + LostForGood(n, a),
                 !["unmappedRetryable"] = @ + a.unplacedRetry,
                 !["unknownCode"] = @ + a.unknown]
BookedDrops(n, a) == dropped + LostForGood(n, a) + a.unplacedRetry

\* The history of a span the ack decided: the gateway's verdict, unless the
\* ack asked for the span again.
Judged(t, again) ==
    fate' = [s \in Span |->
        IF s \in Range(Again(t)) THEN again[s]
        ELSE IF s \in Range(flight[t].spans)
             THEN receipt.verdict[CHOOSE i \in DOMAIN flight[t].spans :
                                      flight[t].spans[i] = s]
             ELSE fate[s]]

\* A flush that puts spans back spends one of the transport's rounds.
NoRoundSpent(survives) == rounds' = 0
SpendRound(survives) == rounds' = IF survives THEN rounds + 1 ELSE 0

\* Such a flush returns True, and still is paced like a failed one.
PacedByReturnValue(survives) == failing' = FALSE
PaceRequeue(survives) == failing' = survives

\* A trusted ack that puts spans back, unless the cap throws all of them away.
SettleRequeue(t) ==
    /\ Delivered(t)
    /\ LET a == receipt.ack
           n == Len(flight[t].spans)
           cut == Excess(t)
           survives == cut < Len(a.retry)
       IN  /\ Consistent(n, a)
           /\ a.retry # <<>>
           /\ rounds < RetryMax
           /\ ApplyHints(a.hint)
           /\ buf' = SubSeq(Refilled(t), cut + 1, Len(Refilled(t)))
           /\ shed' = [Booked(n, a) EXCEPT !["bufferOverflow"] = @ + cut]
           /\ dropped' = BookedDrops(n, a) + cut
           /\ Judged(t, [s \in Span |->
                  IF s \in Range(SubSeq(Refilled(t), 1, cut))
                  THEN "overflow" ELSE "held"])
           /\ SpendRound(survives)
           /\ PaceRequeue(survives)
    /\ Unpin
    /\ Finish(t, TRUE)
    /\ UNCHANGED <<exported, stopping, landed>>

\* A trusted ack that puts nothing back: it asked for nothing, or the
\* transport's budget of consecutive re-enqueues is spent.
SettleClear(t) ==
    /\ Delivered(t)
    /\ LET a == receipt.ack
           n == Len(flight[t].spans)
       IN  /\ Consistent(n, a)
           /\ a.retry = <<>> \/ rounds >= RetryMax
           /\ ApplyHints(a.hint)
           /\ shed' = [Booked(n, a) EXCEPT !["undelivered"] = @ + Len(a.retry)]
           /\ dropped' = BookedDrops(n, a) + Len(a.retry)
           /\ Judged(t, [s \in Span |-> "undelivered"])
    /\ Unpin
    /\ ClearPacing
    /\ Finish(t, TRUE)
    /\ UNCHANGED <<exported, buf, stopping, landed>>

Settle(t) == \/ SettleRefused(t) \/ SettleRetryable(t) \/ SettleUnreadable(t)
             \/ SettleTruncated(t) \/ SettleDistrusted(t) \/ SettleRequeue(t)
             \/ SettleClear(t)

Flush(t) == TakeBatch(t) \/ Encode(t) \/ EncodeRaises(t) \/ Settle(t)

Next == \/ Export \/ Start \/ Stop \/ DaemonWinds \/ GatewayDecides
        \/ \E t \in Flushers : Flush(t)

Spec == Init /\ [][Next]_vars

\* A started thread runs, and a send returns: the sender has a timeout.  The
\* application owes no export, and the gateway owes no answer.
FairSpec == /\ Spec
            /\ WF_vars(DaemonWinds)
            /\ \A t \in Flushers : WF_vars(Encode(t) \/ EncodeRaises(t) \/ Settle(t))
            /\ WF_vars(TakeBatch(Daemon))

-----------------------------------------------------------------------------
(* Properties.                                                             *)

\* Type invariant.
TypeOK ==
    /\ exported \in 0..NumSpans
    /\ buf \in Seq(Span)
    /\ pending \in [spans : Seq(Span), encoded : BOOLEAN, attempts : Nat]
    /\ flushLock \in Flushers \cup {NoOne}
    /\ pc \in [Flushers -> {"idle", "taken", "sending"}]
    /\ flight \in [Flushers ->
                     [spans : Seq(Span), encoded : BOOLEAN, attempts : Nat]]
    /\ daemon \in {"none", "running", "draining", "done", "died"}
    /\ stopping \in BOOLEAN
    /\ batchLimit \in 1..MaxBatch
    /\ rounds \in 0..RetryMax
    /\ failing \in BOOLEAN
    /\ shed \in [Buckets -> Nat]
    /\ dropped \in Nat
    /\ receipt.verdict \in Seq(Verdict)
    /\ receipt.verdict # <<>> => receipt.ack \in Ack(Len(receipt.verdict))
    /\ landed \subseteq Span
    /\ fate \in [Span -> Fate]

\* The spans this transport still holds: buffered, then pinned.
InHand == Range(buf) \cup Range(pending.spans)

\* CTO-260 section 5 (flush_once, "no span is lost and no batch is double-sent"):
\* a span that was exported and has met no end is in hand exactly once, in the
\* buffer or in the pinned batch, whatever the threads and the gateway do.
HeldExactlyOnce ==
    /\ InHand = {s \in Span : fate[s] = "held"}
    /\ Range(buf) \cap Range(pending.spans) = {}
    /\ IsInjective(buf)
    /\ IsInjective(pending.spans)

\* #311 / CTO-391: a span the gateway has written never returns to the buffer,
\* where it would be sent under a new batch_id and billed again.  It is only
\* ever resent inside the pinned batch whose receipt makes the resend a replay.
NoDoubleSend ==
    /\ landed \cap Range(buf) = {}
    /\ landed \cap Range(pending.spans) # {} => receipt # NoReceipt

Met(fates) == Cardinality({s \in Span : fate[s] \in fates})

\* shed_counts() against the truth, for a gateway that reports truthfully: a
\* whole-batch loss is counted exactly, the in-200 losses are counted exactly
\* but for unknown flags, which may only shrink the count, and no counter
\* includes a span the gateway wrote and said so.  Such an ack is never
\* distrusted: that would clear a partial batch on its status alone (CTO-406).
CountersTellTheTruth ==
    /\ shed["undelivered"] = Met({"undelivered"})
    /\ shed["rejected"] = Met({"refused"})
    /\ shed["bufferOverflow"] = Met({"overflow"})
    /\ shed["unmappedRetryable"] = Met({"unplacedRetry"})
    /\ shed["unknownCode"] = Met({"unknownFlag", "unknownRefusal"})
    /\ Met({"distrusted"}) = 0
    /\ shed["rejectedByGateway"] <= Met({"dead", "unplacedDead", "duplicate", "cut"})
    /\ shed["rejectedByGateway"] + Met({"unknownFlag"}) >=
           Met({"dead", "unplacedDead", "duplicate", "cut"})

\* CTO-391 (the silent loss): every span that is neither in hand nor written is
\* on some counter, or left in a batch cleared on its status alone.
NoSilentLoss ==
    Cardinality({s \in 1..exported : s \notin InHand /\ s \notin landed})
        <= shed["undelivered"] + shed["rejected"] + shed["rejectedByGateway"]
           + shed["unmappedRetryable"] + shed["bufferOverflow"]
           + shed["unknownCode"] + Met({"blind"})

Losses == shed["undelivered"] + shed["rejected"] + shed["rejectedByGateway"]
          + shed["unmappedRetryable"] + shed["bufferOverflow"]

\* The loss figures of shed_counts() partition the loss: whatever a gateway
\* answers, no span is counted under two causes, and obs.dropped_span_count is
\* their sum (unknown codes are on neither side, CTO-406).
NoLossCountedTwice ==
    /\ Losses + Cardinality(InHand) <= exported
    /\ dropped = Losses

\* The memory the exporter may hold: a re-enqueue never takes the buffer past
\* the cap, and a hint never takes a batch past the configured size.
BoundedMemory ==
    /\ Len(buf) <= MaxBuffer
    /\ Len(pending.spans) <= MaxBatch

\* current_backoff_ms(): a backoff is owed for as long as a batch waits for its
\* next attempt, or the last answer put spans back although it was a 200; no
\* export, hint or flush of another thread clears it before an answer that asks
\* for nothing.  The attempts of a pinned batch stay under its budget.  Whether
\* the backoff is waited out is up to the caller, and not said here: the worker
\* does, flush() sleeps 0.1 s at most, the final drain does not wait at all.
BackoffOwed ==
    /\ pending.attempts < RetryMax
    /\ pending.attempts > 0 \/ rounds > 0 => failing

\* _requeue_locked, _shed_locked: once its bytes are pinned a batch is never
\* re-cut.  The spans and the bytes of a pinned batch stay as they are until
\* the batch is answered or shed (#315).
ResendsIdentical ==
    [][pending.encoded => \/ pending' = NoBatch
                          \/ /\ pending'.spans = pending.spans
                             /\ pending'.encoded]_vars

\* flush_once ("Never raises"): the background worker survives every flush.
FlushNeverRaises == daemon # "died"

\* While the worker runs, every span leaves the transport for good: no answer of
\* the gateway, and no sequence of partial acks, keeps one in hand forever.  Only
\* a pinned batch that cannot be encoded does.
EventuallySettled ==
    \A s \in Span : (fate[s] = "held" /\ daemon = "running")
        ~> (fate[s] # "held" \/ stopping \/ ~Encodable(pending.spans))

\* stop(): the final drain comes to an end, whatever the gateway answers, unless
\* it meets a batch that cannot be encoded.
DrainEnds ==
    (daemon = "running" /\ stopping)
        ~> (daemon = "done" \/ ~Encodable(pending.spans))
=============================================================================
